---- MODULE Spec2Model ----
(***************************************************************************)
(* A model of the templater package (src/python/templater): tokens,        *)
(* templates, the regular expression a template compiles to, and the       *)
(* format / parse / extract / parse_debug operations.                      *)
(*                                                                         *)
(* Strings are sequences of one-character strings.  A regular expression   *)
(* is a sequence of elements (escaped literal, raw literal, group,         *)
(* named group, backreference) matched the way Python's backtracking `re`  *)
(* matches it: left to right, greedy quantifiers longest first, the first  *)
(* successful path wins.                                                   *)
(***************************************************************************)
EXTENDS Integers, Sequences, FiniteSets, TLC

VARIABLES pc, op, tmpl, string, fields, unformatted, use_defaults, tok, value, result,
          arg_local_only, resolver, request, constants_module

vars == <<pc, op, tmpl, string, fields, unformatted, use_defaults, tok, value, result,
          arg_local_only, resolver, request, constants_module>>

(***************************************************************************)
(* Bounds                                                                  *)
(***************************************************************************)
\* longest input string handed to parse / extract / parse_debug
MaxLen == 4

\* characters the input strings are drawn from
Chars == {"a", "0", "1", "_", "."}

Range(f) == {f[x] : x \in DOMAIN f}

Min(a, b) == IF a <= b THEN a ELSE b

Strings == UNION {[1..n -> Chars] : n \in 0..MaxLen}

EmptyMap == [x \in {} |-> x]

(***************************************************************************)
(* Character classes of the built-in token kinds                           *)
(***************************************************************************)
\* constants.REGEX_INT = "[0-9]"
REGEX_INT == {"0", "1", "2", "3", "4", "5", "6", "7", "8", "9"}

\* constants.REGEX_STR = "[a-zA-Z]"
REGEX_STR ==
    {"a", "b", "c", "d", "e", "f", "g", "h", "i", "j", "k", "l", "m",
     "n", "o", "p", "q", "r", "s", "t", "u", "v", "w", "x", "y", "z",
     "A", "B", "C", "D", "E", "F", "G", "H", "I", "J", "K", "L", "M",
     "N", "O", "P", "Q", "R", "S", "T", "U", "V", "W", "X", "Y", "Z"}

(***************************************************************************)
(* Values: Python ints and strs.  1 and "1" are different values.          *)
(***************************************************************************)
IntVal(i) == [t |-> "int", i |-> i, s |-> <<>>]

StrVal(s) == [t |-> "str", i |-> 0, s |-> s]

DigitChar(d) == <<"0", "1", "2", "3", "4", "5", "6", "7", "8", "9">>[d + 1]

DigitValue(c) == CHOOSE d \in 0..9 : DigitChar(d) = c

\* str(i) for a non-negative int
RECURSIVE IntToStr(_)
IntToStr(i) == IF i < 10 THEN <<DigitChar(i)>>
               ELSE Append(IntToStr(i \div 10), DigitChar(i % 10))

\* int(s) for a string of ASCII digits (leading zeros are dropped)
RECURSIVE StrToInt(_)
StrToInt(s) == IF s = <<>> THEN 0
               ELSE 10 * StrToInt(SubSeq(s, 1, Len(s) - 1)) + DigitValue(s[Len(s)])

\* str(value)
PyStr(v) == IF v.t = "int" THEN IntToStr(v.i) ELSE v.s

(***************************************************************************)
(* Regular expressions                                                     *)
(***************************************************************************)
\* a token's pattern.  With no choices it is an optional leading class
\* (lead, {} when absent) matched once, then the class cls with a width
\* quantifier: max is {} for an unbounded quantifier and {n} for an upper
\* width n.  With choices it is "c1|c2|...", the choices joined unescaped.
TokenRegex(lead, cls, min, max, choices) ==
    [lead |-> lead, cls |-> cls, min |-> min, max |-> max, choices |-> choices]

\* "[cls]" followed by "+", "{m,}", "{,n}" or "{m,n}"
ClassRegex(cls, min, max) == TokenRegex({}, cls, min, max, <<>>)

\* "|".join(map(str, choices))
ChoicesRegex(choices) == TokenRegex({}, {}, 0, {}, choices)

NoRegex == ClassRegex({}, 0, {})

\* re.escape(text): matches text and nothing else
EscLit(text) == [k |-> "lit", text |-> text, name |-> "", rx |-> NoRegex]

\* "(text)": text used as a pattern without escaping, in a group
RawLit(text) == [k |-> "raw", text |-> text, name |-> "", rx |-> NoRegex]

\* "(?P<name>rx)" and "(rx)"
NamedGroup(name, rx) == [k |-> "group", text |-> <<>>, name |-> name, rx |-> rx]

Group(rx) == [k |-> "group", text |-> <<>>, name |-> "", rx |-> rx]

\* "(?P=name)"
Backref(name) == [k |-> "backref", text |-> <<>>, name |-> name, rx |-> NoRegex]

NoMatch == [ok |-> FALSE, spans |-> <<>>, end |-> 0]

\* one pattern character against one string character: in an unescaped
\* literal "." is the wildcard (any character but a newline)
CharMatches(k, p, c) == IF k = "raw" /\ p = "." THEN c # "\n" ELSE p = c

LitMatchesAt(k, text, s, pos) ==
    /\ pos + Len(text) <= Len(s)
    /\ \A j \in 1..Len(text) : CharMatches(k, text[j], s[pos + j])

\* number of consecutive characters of cls in s after offset pos
RECURSIVE Run(_, _, _)
Run(cls, s, pos) == IF pos < Len(s) /\ s[pos + 1] \in cls
                    THEN 1 + Run(cls, s, pos + 1) ELSE 0

\* "$" matches at the end and just before a trailing newline
AtEnd(s, pos) == \/ pos = Len(s)
                 \/ pos = Len(s) - 1 /\ s[Len(s)] = "\n"

\* the widths a group can take at offset pos, in the order the backtracking
\* matcher tries them: the alternatives of a choice pattern in the order
\* written, the widths of a quantified class longest first
RECURSIVE Down(_, _)
Down(hi, lo) == IF hi < lo THEN <<>> ELSE <<hi>> \o Down(hi - 1, lo)

RECURSIVE ChoiceWidths(_, _, _)
ChoiceWidths(choices, s, pos) ==
    IF choices = <<>> THEN <<>>
    ELSE (IF LitMatchesAt("raw", Head(choices), s, pos)
          THEN <<Len(Head(choices))>> ELSE <<>>) \o ChoiceWidths(Tail(choices), s, pos)

GroupWidths(rx, s, pos) ==
    IF rx.choices # <<>> THEN ChoiceWidths(rx.choices, s, pos)
    ELSE LET led == IF rx.lead = {} THEN 0 ELSE 1
             run == Run(rx.cls, s, pos + led)
             hi == IF rx.max = {} THEN run
                   ELSE Min(run, CHOOSE m \in rx.max : TRUE)
         IN  IF led = 1 /\ ~(pos < Len(s) /\ s[pos + 1] \in rx.lead) THEN <<>>
             ELSE Down(led + hi, led + rx.min)

GroupIndex(elems, name) ==
    CHOOSE j \in 1..Len(elems) : elems[j].k = "group" /\ elems[j].name = name

\* the backtracking search: element i onwards at offset pos; spans holds
\* the <<start, end>> offsets of the elements matched so far
RECURSIVE re_from(_, _, _, _, _, _)
RECURSIVE re_try(_, _, _, _, _, _, _)
re_from(elems, i, pos, spans, s, anchored) ==
    IF i > Len(elems)
    THEN IF anchored => AtEnd(s, pos)
         THEN [ok |-> TRUE, spans |-> spans, end |-> pos]
         ELSE NoMatch
    ELSE LET e == elems[i] IN
         CASE e.k \in {"lit", "raw"} ->
                IF LitMatchesAt(e.k, e.text, s, pos)
                THEN re_from(elems, i + 1, pos + Len(e.text),
                             Append(spans, <<pos, pos + Len(e.text)>>), s, anchored)
                ELSE NoMatch
           [] e.k = "backref" ->
                LET sp == spans[GroupIndex(elems, e.name)]
                    text == SubSeq(s, sp[1] + 1, sp[2])
                IN  IF LitMatchesAt("lit", text, s, pos)
                    THEN re_from(elems, i + 1, pos + Len(text),
                                 Append(spans, <<pos, pos + Len(text)>>), s, anchored)
                    ELSE NoMatch
           [] e.k = "group" -> re_try(elems, i, pos, spans, s, anchored, 1)

\* group i takes the n-th of its widths; when the rest of the pattern then
\* fails, the next one
re_try(elems, i, pos, spans, s, anchored, n) ==
    LET widths == GroupWidths(elems[i].rx, s, pos) IN
    IF n > Len(widths) THEN NoMatch
    ELSE LET r == re_from(elems, i + 1, pos + widths[n],
                          Append(spans, <<pos, pos + widths[n]>>), s, anchored)
         IN  IF r.ok THEN r ELSE re_try(elems, i, pos, spans, s, anchored, n + 1)

\* re.compile fails on a pattern that defines a group name twice
re_compiles(elems) ==
    \A i, j \in 1..Len(elems) :
        (/\ elems[i].k = "group" /\ elems[j].k = "group"
         /\ elems[i].name # "" /\ elems[i].name = elems[j].name) => i = j

\* re.match(pattern, s); anchored stands for a pattern wrapped in "^...$"
re_match(elems, s, anchored) == re_from(elems, 1, 0, <<>>, s, anchored)

\* match.group(i) for the i-th element
GroupText(m, s, i) == SubSeq(s, m.spans[i][1] + 1, m.spans[i][2])

\* match.groupdict()[name]
GroupDict(elems, m, s, name) == GroupText(m, s, GroupIndex(elems, name))

(***************************************************************************)
(* Outcomes of the operations: a returned value or the exception raised    *)
(***************************************************************************)
NoValue == StrVal(<<>>)

Outcome(status) ==
    [status |-> status, fields |-> EmptyMap, end |-> 0, char_index |-> 0,
     segment_index |-> 0, text |-> <<>>, token_name |-> "", val |-> NoValue,
     regex |-> <<>>, items |-> <<>>]

Returned == Outcome("ok")

\* exceptions.ParseError, exceptions.FormatError, re.error
ParseError == Outcome("ParseError")

FormatError == Outcome("FormatError")

ReError == Outcome("re.error")

\* exceptions.MissingTokenError(token_name)
MissingTokenError(token_name) ==
    [Outcome("MissingTokenError") EXCEPT !.token_name = token_name]

\* exceptions.DebugParseError(message, char_index, segment_index, partial_fields)
\* and its subclasses MismatchTokenError and ExcessStringError
DebugError(cls, char_index, segment_index, partial_fields) ==
    [Outcome(cls) EXCEPT !.char_index = char_index,
                         !.segment_index = segment_index,
                         !.fields = partial_fields]

DebugErrors == {"DebugParseError", "MismatchTokenError", "ExcessStringError"}

\* fields[name] = v on a dict
Put(f, name, v) == [x \in DOMAIN f \cup {name} |-> IF x = name THEN v ELSE f[x]]

\* fields.pop(name) on a dict
Pop(f, name) == [x \in DOMAIN f \ {name} |-> f[x]]

(***************************************************************************)
(* Tokens (token.py)                                                       *)
(***************************************************************************)
\* a format spec "<fill><align><width><type>"; width 0 and fill "" when the
\* spec is only a type
FormatSpec(fill, align, width, type) ==
    [fill |-> fill, align |-> align, width |-> width, type |-> type]

\* default is {} for None and {v} for a default value v
Token(name, type, rx, format_spec, default) ==
    [name |-> name, type |-> type, rx |-> rx, format_spec |-> format_spec,
     default |-> default]

\* IntToken(name): regex REGEX_INT + "+", format spec "d"
IntToken(name, rx, format_spec, default) == Token(name, "int", rx, format_spec, default)

\* StringToken(name): regex REGEX_STR + "+", format spec "s"
StringToken(name, rx, format_spec, default) == Token(name, "str", rx, format_spec, default)

NoToken == Token("", "str", NoRegex, FormatSpec("", "", 0, "s"), {})

RECURSIVE Repeat(_, _)
Repeat(c, n) == IF n <= 0 THEN <<>> ELSE <<c>> \o Repeat(c, n - 1)

\* "{:<spec>}".format(value): ok is FALSE where Python raises ValueError
\* (a "d" spec on a str, an "s" spec on an int, "=" alignment on a str, a
\* negative width on a str: the "-" is read as a sign). On an int the "-"
\* of a negative width is the sign option and the width is its digits.
PyFormat(spec, v) ==
    LET body == PyStr(v)
        width == IF spec.width < 0 THEN -spec.width ELSE spec.width
        pad == Repeat(spec.fill, width - Len(body))
    IN  IF \/ spec.type = "d" /\ v.t # "int"
           \/ spec.type = "s" /\ v.t # "str"
           \/ spec.type = "s" /\ spec.align = "="
           \/ spec.type = "s" /\ spec.width < 0
        THEN [ok |-> FALSE, text |-> <<>>]
        ELSE [ok |-> TRUE,
              text |-> IF spec.align = "<" THEN body \o pad ELSE pad \o body]

\* the text int() accepts: ASCII digits, with single underscores allowed
\* between two digits
IsIntLiteral(s) ==
    /\ s # <<>>
    /\ \A j \in 1..Len(s) :
          \/ s[j] \in REGEX_INT
          \/ s[j] = "_" /\ 1 < j /\ j < Len(s)
                /\ s[j - 1] \in REGEX_INT /\ s[j + 1] \in REGEX_INT

IsDigit(c) == c \in REGEX_INT

\* Token.value_from_parsed_string / IntToken.value_from_parsed_string
value_from_parsed_string(t, s) ==
    IF t.type = "int"
    THEN IF IsIntLiteral(s)
         THEN [Returned EXCEPT !.val = IntVal(StrToInt(SelectSeq(s, IsDigit)))]
         ELSE ParseError
    ELSE [Returned EXCEPT !.val = StrVal(s)]

\* self._pattern.match(string) with self._pattern = "^{}$".format(regex):
\* in "^c1|c2|...|cn$" the "$" belongs to the last alternative only, and
\* match() starts every alternative at offset 0
PatternMatches(rx, s) ==
    IF rx.choices = <<>> THEN re_match(<<Group(rx)>>, s, TRUE).ok
    ELSE \E j \in 1..Len(rx.choices) :
            /\ LitMatchesAt("raw", rx.choices[j], s, 0)
            /\ j = Len(rx.choices) => AtEnd(s, Len(rx.choices[j]))

\* Token.parse
Token_parse(t, s) ==
    IF ~PatternMatches(t.rx, s) THEN ParseError
    ELSE value_from_parsed_string(t, s)

\* a faulty Token.format that returns the rendered text without parsing it
Token_format_unchecked(t, v) ==
    LET r == PyFormat(t.format_spec, v) IN
    IF ~r.ok THEN FormatError
    ELSE [Returned EXCEPT !.text = r.text]

\* Token.format
Token_format(t, v) ==
    LET r == PyFormat(t.format_spec, v) IN
    IF ~r.ok THEN FormatError
    ELSE IF Token_parse(t, r.text).status # "ok" THEN FormatError
    ELSE [Returned EXCEPT !.text = r.text]

(***************************************************************************)
(* Templates (template.py)                                                 *)
(***************************************************************************)
\* the three kinds of segment: a str, a Token, a Template
Lit(text) == [kind |-> "str", text |-> text, token |-> NoToken, name |-> "",
              segments |-> <<>>]

Tok(t) == [kind |-> "token", text |-> <<>>, token |-> t, name |-> t.name,
           segments |-> <<>>]

\* Template(name, segments)
Template(name, segments) ==
    [kind |-> "template", text |-> <<>>, token |-> NoToken, name |-> name,
     segments |-> segments]

\* Template.segments(local_only)
RECURSIVE Template_segments(_, _)
Template_segments(t, local_only) ==
    LET RECURSIVE walk(_)
        walk(segs) ==
            IF segs = <<>> THEN <<>>
            ELSE LET segment == Head(segs) IN
                 (IF segment.kind = "template" /\ ~local_only
                  THEN Template_segments(segment, local_only)
                  ELSE <<segment>>) \o walk(Tail(segs))
    IN  walk(t.segments)

IsToken(segment) == segment.kind = "token"

\* Template.tokens(local_only)
Template_tokens(t, local_only) == SelectSeq(Template_segments(t, local_only), IsToken)

IsTemplate(segment) == segment.kind = "template"

\* a faulty Template.templates that never descends into a child
Template_templates_direct(t, local_only) == SelectSeq(t.segments, IsTemplate)

\* Template.templates(local_only): the loop appends a child and then, unless
\* local_only, extends the list by the child's own templates
RECURSIVE Template_templates(_, _)
Template_templates(t, local_only) ==
    LET RECURSIVE loop(_, _)
        loop(i, templates) ==
            IF i > Len(t.segments) THEN templates
            ELSE LET segment == t.segments[i] IN
                 IF segment.kind # "template" THEN loop(i + 1, templates)
                 ELSE IF local_only THEN loop(i + 1, Append(templates, segment))
                 ELSE loop(i + 1, Append(templates, segment)
                                    \o Template_templates(segment, local_only))
    IN  loop(1, <<>>)

TokenNames(t) == {seg.name : seg \in Range(Template_tokens(t, FALSE))}

InSeq(x, seq) == \E j \in 1..Len(seq) : seq[j] = x

\* the list the caller of a nested regex() call sees afterwards:
\* `backreferences or []` makes the callee work on a fresh list when the
\* list it is handed is empty
SeenAfterChild(backreferences, child_backreferences) ==
    IF backreferences = <<>> THEN backreferences ELSE child_backreferences

\* Template.regex(backreferences): the pattern and the list afterwards
RECURSIVE regex_walk(_, _)
regex_walk(segs, backreferences) ==
    IF segs = <<>> THEN [elems |-> <<>>, br |-> backreferences]
    ELSE LET segment == Head(segs)
             first ==
                 CASE segment.kind = "str" ->
                        [elems |-> <<EscLit(segment.text)>>, br |-> backreferences]
                   [] segment.kind = "template" ->
                        LET sub == regex_walk(segment.segments, backreferences)
                        IN  [elems |-> sub.elems,
                             br |-> SeenAfterChild(backreferences, sub.br)]
                   [] segment.kind = "token" ->
                        IF InSeq(segment.name, backreferences)
                        THEN [elems |-> <<Backref(segment.name)>>,
                              br |-> backreferences]
                        ELSE [elems |-> <<NamedGroup(segment.name, segment.token.rx)>>,
                              br |-> Append(backreferences, segment.name)]
             rest == regex_walk(Tail(segs), first.br)
         IN  [elems |-> first.elems \o rest.elems, br |-> rest.br]

Template_regex(t) == regex_walk(t.segments, <<>>).elems

\* the dict comprehension of _parse: a later token of a name overwrites
\* an earlier one, so the last token of the name converts the text
RECURSIVE parse_fields(_, _, _, _)
parse_fields(tokens, elems, m, s) ==
    IF tokens = <<>> THEN Returned
    ELSE LET n == Len(tokens)
             init == parse_fields(SubSeq(tokens, 1, n - 1), elems, m, s)
             v == value_from_parsed_string(tokens[n].token,
                                           GroupDict(elems, m, s, tokens[n].name))
         IN  IF init.status # "ok" THEN init
             ELSE IF v.status # "ok" THEN ParseError
             ELSE [init EXCEPT !.fields = Put(init.fields, tokens[n].name, v.val)]

\* Template._parse
Template__parse(t, elems, s, anchored) ==
    IF ~re_compiles(elems) THEN ReError
    ELSE LET m == re_match(elems, s, anchored) IN
         IF ~m.ok THEN ParseError
         ELSE [parse_fields(Template_tokens(t, FALSE), elems, m, s)
                  EXCEPT !.end = m.end]

\* Template.extract
Template_extract(t, s) == Template__parse(t, Template_regex(t), s, FALSE)

\* Template.parse: the regex wrapped in "^...$"; only the fields come back
Template_parse(t, s) ==
    [Template__parse(t, Template_regex(t), s, TRUE) EXCEPT !.end = 0]

\* the character loop of parse_debug over zip(segment, string[char_index:]):
\* the loop variable ends on the first differing offset, on the last offset
\* compared when none differs, and stays at char_index when nothing is
\* compared
literal_char_index(segment, s, char_index) ==
    LET pairs == Min(Len(segment), Len(s) - char_index)
        differ == {j \in 0..(pairs - 1) : segment[j + 1] # s[char_index + j + 1]}
    IN  IF pairs = 0 THEN char_index
        ELSE IF differ # {}
             THEN char_index + (CHOOSE j \in differ : \A l \in differ : j <= l)
             ELSE char_index + pairs - 1

\* "({})".format(segment if isinstance(segment, str) else segment.regex())
debug_regexes(segments) ==
    [i \in 1..Len(segments) |->
        IF segments[i].kind = "str" THEN RawLit(segments[i].text)
        ELSE Group(segments[i].token.rx)]

\* a faulty conversion loop that lets a later occurrence of a token name
\* overwrite an earlier one without comparing them
RECURSIVE debug_fields_overwrite(_, _, _, _, _, _)
debug_fields_overwrite(segments, m, s, k, i, partial) ==
    IF i > k THEN [Returned EXCEPT !.fields = partial]
    ELSE LET segment == segments[i]
             v == value_from_parsed_string(segment.token, GroupText(m, s, i))
         IN  IF segment.kind = "str"
             THEN debug_fields_overwrite(segments, m, s, k, i + 1, partial)
             ELSE IF v.status # "ok"
             THEN DebugError("DebugParseError", m.spans[i][1], i - 1, partial)
             ELSE debug_fields_overwrite(segments, m, s, k, i + 1,
                                         Put(partial, segment.name, v.val))

\* match.span(i) of a group that took no part in the match
NoSpan == <<-1, -1>>

\* None as a field value: match.groups() gives None for such a group, which
\* Token.value_from_parsed_string returns as it is and int() rejects with
\* TypeError
NoneVal == [t |-> "none", i |-> 0, s |-> <<>>]

\* the conversion loop of parse_debug over zip(segments, match.groups()),
\* from the i-th of the k pairs on
RECURSIVE debug_fields(_, _, _, _, _, _)
debug_fields(segments, m, s, k, i, partial) ==
    IF i > k THEN [Returned EXCEPT !.fields = partial]
    ELSE LET segment == segments[i]
             char_index == m.spans[i][1]
             v == IF m.spans[i] # NoSpan
                  THEN value_from_parsed_string(segment.token, GroupText(m, s, i))
                  ELSE IF segment.token.type = "int" THEN Outcome("TypeError")
                  ELSE [Returned EXCEPT !.val = NoneVal]
         IN  IF segment.kind = "str"
             THEN debug_fields(segments, m, s, k, i + 1, partial)
             ELSE IF v.status = "TypeError" THEN v
             ELSE IF v.status # "ok"
             THEN DebugError("DebugParseError", char_index, i - 1, partial)
             ELSE IF segment.name \in DOMAIN partial /\ partial[segment.name] # v.val
             THEN DebugError("MismatchTokenError", char_index, i - 1,
                             Pop(partial, segment.name))
             ELSE debug_fields(segments, m, s, k, i + 1,
                               Put(partial, segment.name, v.val))

\* a faulty loop that returns the fields when every segment matched, without
\* looking at the text left after the match
RECURSIVE debug_scan_prefix(_, _, _)
debug_scan_prefix(segments, s, segment_index) ==
    LET num_segments == Len(segments)
        m == re_match(SubSeq(debug_regexes(segments), 1, segment_index), s, FALSE)
        conv == debug_fields(segments, m, s, segment_index, 1, EmptyMap)
    IN  IF segment_index < 1
        THEN DebugError("DebugParseError", 0, 0, EmptyMap)
        ELSE IF ~m.ok THEN debug_scan_prefix(segments, s, segment_index - 1)
        ELSE IF conv.status # "ok" \/ segment_index = num_segments THEN conv
        ELSE LET segment == segments[segment_index + 1]
                 char_index == IF segment.kind = "str"
                               THEN literal_char_index(segment.text, s, m.end)
                               ELSE m.end
             IN  DebugError("DebugParseError", char_index, segment_index, conv.fields)

\* where ")|(" starts in a literal, 0 when the literal does not hold it
split_index(text) ==
    LET at == {j \in 1..(Len(text) - 2) : SubSeq(text, j, j + 2) = <<")", "|", "(">>}
    IN  IF at = {} THEN 0 ELSE CHOOSE j \in at : \A l \in at : j <= l

\* the first sub-pattern whose literal holds ")|(", 0 when there is none
first_split(elems) ==
    LET at == {i \in 1..Len(elems) :
                  elems[i].k = "raw" /\ split_index(elems[i].text) > 0}
    IN  IF at = {} THEN 0 ELSE CHOOSE i \in at : \A l \in at : i <= l

\* a literal whose parentheses are those of ")|(" only
RECURSIVE balanced(_)
balanced(text) ==
    LET at == split_index(text)
        plain(t) == "(" \notin Range(t) /\ ")" \notin Range(t)
    IN  IF at = 0 THEN plain(text)
        ELSE plain(SubSeq(text, 1, at - 1))
                /\ balanced(SubSeq(text, at + 3, Len(text)))

\* the number of groups of the joined sub-patterns: one for each, and one
\* more for each ")|(" in a literal
RECURSIVE splits(_)
splits(text) ==
    IF split_index(text) = 0 THEN 0
    ELSE 1 + splits(SubSeq(text, split_index(text) + 3, Len(text)))

RECURSIVE group_count(_)
group_count(elems) ==
    IF elems = <<>> THEN 0
    ELSE 1 + (IF Head(elems).k = "raw" THEN splits(Head(elems).text) ELSE 0)
           + group_count(Tail(elems))

\* re.compile of the joined sub-patterns: a literal is pasted in as it is,
\* so a "(" or ")" in a literal leaves a group open or closes one that was
\* not opened, except in ")|(", which closes the literal's group and opens
\* another
debug_compiles(elems) ==
    \A i \in 1..Len(elems) : elems[i].k = "raw" => balanced(elems[i].text)

\* re.match(pattern, string) on the joined sub-patterns. A literal "L)|(R"
\* makes the pattern the alternation "(e1)..(L)|(R)..(ek)": the left
\* branch is tried first, and the groups of the branch that took no part
\* have the span (-1, -1)
RECURSIVE debug_match(_, _)
debug_match(elems, s) ==
    LET j == first_split(elems)
        text == elems[j].text
        at == split_index(text)
        left == re_match(Append(SubSeq(elems, 1, j - 1),
                                RawLit(SubSeq(text, 1, at - 1))), s, FALSE)
        rest == <<RawLit(SubSeq(text, at + 3, Len(text)))>>
                    \o SubSeq(elems, j + 1, Len(elems))
        right == debug_match(rest, s)
        none(n) == [x \in 1..n |-> NoSpan]
    IN  IF j = 0 THEN re_match(elems, s, FALSE)
        ELSE IF left.ok THEN [left EXCEPT !.spans = @ \o none(group_count(rest))]
        ELSE IF right.ok THEN [right EXCEPT !.spans = none(j) \o @]
        ELSE NoMatch

\* parse_debug once the first segment_index segments matched as m: the
\* conversion loop, then the return, the ExcessStringError or the
\* DebugParseError for the segment after the match
debug_matched(segments, s, segment_index, m) ==
    LET num_segments == Len(segments)
        conv == debug_fields(segments, m, s, Min(num_segments, Len(m.spans)), 1,
                             EmptyMap)
    IN  IF conv.status # "ok" THEN conv
        ELSE IF segment_index = num_segments
        THEN IF m.end # Len(s)
             THEN DebugError("ExcessStringError", m.end, num_segments, conv.fields)
             ELSE conv
        ELSE LET segment == segments[segment_index + 1]
                 char_index == IF segment.kind = "str"
                               THEN literal_char_index(segment.text, s, m.end)
                               ELSE m.end
             IN  DebugError("DebugParseError", char_index, segment_index, conv.fields)

\* the loop of parse_debug: for segment_index in range(num_segments, 0, -1)
RECURSIVE debug_scan(_, _, _)
debug_scan(segments, s, segment_index) ==
    LET pattern == SubSeq(debug_regexes(segments), 1, segment_index)
        m == debug_match(pattern, s)
    IN  IF segment_index < 1
        THEN DebugError("DebugParseError", 0, 0, EmptyMap)
        ELSE IF ~debug_compiles(pattern) THEN ReError
        ELSE IF ~m.ok THEN debug_scan(segments, s, segment_index - 1)
        ELSE debug_matched(segments, s, segment_index, m)

\* Template.parse_debug
Template_parse_debug(t, s) ==
    LET segments == Template_segments(t, FALSE)
    IN  debug_scan(segments, s, Len(segments))

\* the text of a format spec, as Token.format_spec returns it
format_spec_text(spec) ==
    IF spec.width = 0 THEN <<spec.type>>
    ELSE (IF spec.fill = "" THEN <<>> ELSE <<spec.fill>>)
         \o (IF spec.align = "" THEN <<>> ELSE <<spec.align>>)
         \o PyStr(IntVal(spec.width)) \o <<spec.type>>

\* a faulty pattern that writes a token as its bare name
RECURSIVE Template_pattern_bare(_, _)
Template_pattern_bare(t, formatters) ==
    LET RECURSIVE walk(_)
        walk(segs) ==
            IF segs = <<>> THEN <<>>
            ELSE LET segment == Head(segs)
                 IN  (CASE segment.kind = "str" -> segment.text
                        [] segment.kind = "token" -> <<segment.name>>
                        [] segment.kind = "template" ->
                             Template_pattern_bare(segment, formatters))
                     \o walk(Tail(segs))
    IN  walk(t.segments)

\* Template.pattern(formatters): "{name}" or "{name:format_spec}" for a
\* token (a token name of the model is one character), pattern() of a
\* nested template
RECURSIVE Template_pattern(_, _)
Template_pattern(t, formatters) ==
    LET RECURSIVE walk(_)
        walk(segs) ==
            IF segs = <<>> THEN <<>>
            ELSE LET segment == Head(segs)
                     spec == segment.token.format_spec
                 IN  (CASE segment.kind = "str" -> segment.text
                        [] segment.kind = "token" ->
                             IF formatters
                             THEN <<"{", segment.name, ":">>
                                  \o format_spec_text(spec) \o <<"}">>
                             ELSE <<"{", segment.name, "}">>
                        [] segment.kind = "template" ->
                             Template_pattern(segment, formatters))
                     \o walk(Tail(segs))
    IN  walk(t.segments)

\* Template.format: a nested template is formatted by segment.format(fields),
\* that is with no unformatted strings and with use_defaults = True
RECURSIVE Template_format(_, _, _, _)
Template_format(t, flds, unf, defaults) ==
    LET RECURSIVE walk(_)
        walk(segs) ==
            IF segs = <<>> THEN Returned
            ELSE LET segment == Head(segs)
                     first ==
                         CASE segment.kind = "str" ->
                                [Returned EXCEPT !.text = segment.text]
                           [] segment.kind = "template" ->
                                Template_format(segment, flds, EmptyMap, TRUE)
                           [] segment.kind = "token" ->
                                IF segment.name \in DOMAIN unf
                                THEN [Returned EXCEPT !.text = unf[segment.name]]
                                ELSE IF segment.name \notin DOMAIN flds
                                THEN IF defaults /\ segment.token.default # {}
                                     THEN [Returned EXCEPT !.text =
                                             PyStr(CHOOSE d \in segment.token.default : TRUE)]
                                     ELSE MissingTokenError(segment.name)
                                ELSE Token_format(segment.token, flds[segment.name])
                     rest == walk(Tail(segs))
                 IN  IF first.status # "ok" THEN first
                     ELSE IF rest.status # "ok" THEN rest
                     ELSE [Returned EXCEPT !.text = first.text \o rest.text]
    IN  walk(t.segments)

(***************************************************************************)
(* The tokens and templates the operations are run on                      *)
(***************************************************************************)
Plus(cls) == ClassRegex(cls, 1, {})

\* IntToken("n") and StringToken("s"), StringToken("t"): constructor defaults
tok_n == IntToken("n", Plus(REGEX_INT), FormatSpec("", "", 0, "d"), {})

tok_s == StringToken("s", Plus(REGEX_STR), FormatSpec("", "", 0, "s"), {})

tok_t == StringToken("t", Plus(REGEX_STR), FormatSpec("", "", 0, "s"), {})

\* IntToken("m", regex="[0-9]{2,}", format_spec="0=2d", default=1)
tok_m == IntToken("m", ClassRegex(REGEX_INT, 2, {}), FormatSpec("0", "=", 2, "d"),
                  {IntVal(1)})

\* StringToken("p", regex="[a-zA-Z]{2,}", format_spec="X>2s", default="a")
tok_p == StringToken("p", ClassRegex(REGEX_STR, 2, {}), FormatSpec("X", ">", 2, "s"),
                     {StrVal(<<"a">>)})

Tokens == {tok_n, tok_s, tok_t, tok_m, tok_p}

child_n == Template("child", <<Tok(tok_n)>>)

\* root = "{s}_{n}", referenced by t14 = "{@root}_{s}"
root_sn == Template("root", <<Tok(tok_s), Lit(<<"_">>), Tok(tok_n)>>)

Templates ==
    { Template("t01", <<Tok(tok_n), Lit(<<"_">>), Tok(tok_n)>>),
      Template("t02", <<Tok(tok_s), Lit(<<"_">>), Tok(tok_n)>>),
      Template("t03", <<child_n, Lit(<<"_">>), Tok(tok_n)>>),
      Template("t04", <<Tok(tok_n), Lit(<<"_">>), child_n>>),
      Template("t05", <<Tok(tok_s), Lit(<<".">>), Tok(tok_n)>>),
      Template("t06", <<Lit(<<"a">>), Tok(tok_n), Lit(<<".">>), Tok(tok_s)>>),
      Template("t07", <<Tok(tok_s), Tok(tok_n), Tok(tok_s)>>),
      Template("t08", <<Tok(tok_s), child_n, child_n>>),
      Template("t09", <<child_n, Tok(tok_n), Lit(<<"_">>), Tok(tok_n)>>),
      Template("t10", <<Tok(tok_s), Tok(tok_t)>>),
      Template("t11", <<Tok(tok_n), Lit(<<"_">>), Tok(tok_n), Lit(<<".">>)>>),
      Template("t12", <<Tok(tok_m), Lit(<<"_", "a">>)>>),
      Template("t13", <<Lit(<<"a", ".">>), Tok(tok_p)>>),
      Template("t14", <<root_sn, Lit(<<"_">>), Tok(tok_s)>>) }

(***************************************************************************)
(* The operations as steps                                                 *)
(***************************************************************************)
Idle == Outcome("none")

\* a resolver without tokens or templates: TemplateResolver()
\* a TemplateResolver: self._tokens, self._templates, and the history of the
\* assignments the resolver made to self._templates, oldest first
EmptyResolver == [tokens |-> EmptyMap, templates |-> EmptyMap, stored |-> <<>>]

NoRequest == [call |-> "none"]

\* the constants module resolver.py is written against
ConstantsOfResolver == "src/templater/constants.py"

\* no resolver is in use
NoResolverCall ==
    /\ arg_local_only = FALSE
    /\ resolver = EmptyResolver
    /\ request = NoRequest
    /\ constants_module = ConstantsOfResolver

\* a template and a string are chosen; parse, extract, parse_debug or regex
\* is then called on them
InitParse ==
    /\ pc = "ready"
    /\ op = "none"
    /\ tmpl \in Templates
    /\ string \in Strings
    /\ fields = EmptyMap
    /\ unformatted = EmptyMap
    /\ use_defaults = TRUE
    /\ tok = NoToken
    /\ value = NoValue
    /\ result = Idle
    /\ NoResolverCall

Call(name, outcome) ==
    /\ pc = "ready"
    /\ pc' = "done"
    /\ op' = name
    /\ result' = outcome

Parse ==
    /\ Call("parse", Template_parse(tmpl, string))
    /\ UNCHANGED <<tmpl, string, fields, unformatted, use_defaults, tok, value,
                 arg_local_only, resolver, request, constants_module>>

Extract ==
    /\ Call("extract", Template_extract(tmpl, string))
    /\ UNCHANGED <<tmpl, string, fields, unformatted, use_defaults, tok, value,
                 arg_local_only, resolver, request, constants_module>>

ParseDebug ==
    /\ Call("parse_debug", Template_parse_debug(tmpl, string))
    /\ UNCHANGED <<tmpl, string, fields, unformatted, use_defaults, tok, value,
                 arg_local_only, resolver, request, constants_module>>

Regex ==
    /\ Call("regex", [Returned EXCEPT !.regex = Template_regex(tmpl)])
    /\ UNCHANGED <<tmpl, string, fields, unformatted, use_defaults, tok, value,
                 arg_local_only, resolver, request, constants_module>>

NextParse == Parse \/ Extract \/ ParseDebug \/ Regex

SpecParse == InitParse /\ [][NextParse]_vars

(***************************************************************************)
(* format followed by parse of the formatted string                        *)
(***************************************************************************)
\* largest int handed to Token.format
MaxInt == 12

\* values handed to Template.format: ints and strs, so that a token also
\* meets a value of the other type
FieldValues ==
    {IntVal(1), IntVal(10), StrVal(<<"a">>), StrVal(<<"a", "a">>), StrVal(<<"1">>)}

\* the dicts with keys among names and values among vals
Maps(names, vals) == UNION {[d -> vals] : d \in SUBSET names}

\* "a{@child}" with child = "{m}": a nested token that has a default
nested_m == Template("t15", <<Lit(<<"a">>), Template("child", <<Tok(tok_m)>>)>>)

\* a template, a fields dict (which may hold a key "x" that is no token of
\* the template), an unformatted dict and use_defaults are chosen
InitFormat ==
    /\ pc = "ready"
    /\ op = "none"
    /\ tmpl \in Templates \cup {nested_m}
    /\ string = <<>>
    /\ fields \in Maps(TokenNames(tmpl) \cup {"x"}, FieldValues)
    /\ unformatted \in Maps(TokenNames(tmpl), {<<".">>})
    /\ use_defaults \in BOOLEAN
    /\ tok = NoToken
    /\ value = NoValue
    /\ result = Idle
    /\ NoResolverCall

\* s = tmpl.format(fields, unformatted, use_defaults)
Format ==
    /\ pc = "ready"
    /\ pc' = "formatted"
    /\ op' = "format"
    /\ result' = Template_format(tmpl, fields, unformatted, use_defaults)
    /\ string' = result'.text
    /\ UNCHANGED <<tmpl, fields, unformatted, use_defaults, tok, value,
                 arg_local_only, resolver, request, constants_module>>

\* tmpl.parse(s) on the string format returned
Reparse ==
    /\ pc = "formatted"
    /\ op = "format"
    /\ result.status = "ok"
    /\ pc' = "done"
    /\ op' = "reparse"
    /\ result' = Template_parse(tmpl, string)
    /\ UNCHANGED <<tmpl, string, fields, unformatted, use_defaults, tok, value,
                 arg_local_only, resolver, request, constants_module>>

NextFormat == Format \/ Reparse

SpecFormat == InitFormat /\ [][NextFormat]_vars

(***************************************************************************)
(* Token.format followed by Token.parse of the formatted string            *)
(***************************************************************************)
Values == {IntVal(i) : i \in 0..MaxInt} \cup {StrVal(s) : s \in Strings}

NoTemplate == Template("", <<>>)

InitToken ==
    /\ pc = "ready"
    /\ op = "none"
    /\ tmpl = NoTemplate
    /\ string = <<>>
    /\ fields = EmptyMap
    /\ unformatted = EmptyMap
    /\ use_defaults = TRUE
    /\ tok \in Tokens
    /\ value \in Values
    /\ result = Idle
    /\ NoResolverCall

\* s = tok.format(value)
TokenFormat ==
    /\ pc = "ready"
    /\ pc' = "formatted"
    /\ op' = "token_format"
    /\ result' = Token_format(tok, value)
    /\ string' = result'.text
    /\ UNCHANGED <<tmpl, fields, unformatted, use_defaults, tok, value,
                 arg_local_only, resolver, request, constants_module>>

\* tok.parse(s) on the string format returned
TokenParse ==
    /\ pc = "formatted"
    /\ op = "token_format"
    /\ result.status = "ok"
    /\ pc' = "done"
    /\ op' = "token_parse"
    /\ result' = Token_parse(tok, string)
    /\ UNCHANGED <<tmpl, string, fields, unformatted, use_defaults, tok, value,
                 arg_local_only, resolver, request, constants_module>>

NextToken == TokenFormat \/ TokenParse

SpecToken == InitToken /\ [][NextToken]_vars

(***************************************************************************)
(* Tokens built from a configuration dict (util.py, token.py)              *)
(***************************************************************************)
\* exceptions.ResolverError
ResolverError == Outcome("ResolverError")

\* constants.DEFAULT_PADALIGN_INT, DEFAULT_PADALIGN_STR, DEFAULT_PADCHAR_INT,
\* DEFAULT_PADCHAR_STR
DEFAULT_PADALIGN_INT == "="

DEFAULT_PADALIGN_STR == ">"

DEFAULT_PADCHAR_INT == "0"

DEFAULT_PADCHAR_STR == "X"

\* "[a-z]" and "[A-Z]"
LowerClass ==
    {"a", "b", "c", "d", "e", "f", "g", "h", "i", "j", "k", "l", "m",
     "n", "o", "p", "q", "r", "s", "t", "u", "v", "w", "x", "y", "z"}

UpperClass == REGEX_STR \ LowerClass

\* a configuration dict: an absent key is {}, a present one {value}
BaseConfig(type) ==
    [type |-> type, regex |-> {}, choices |-> {}, padmin |-> {}, padmax |-> {},
     case |-> {}, format_spec |-> {}, padstrict |-> {}, padalign |-> {},
     padchar |-> {}, default |-> {}]

\* config.get(key) and its truth value: None, 0, "", [] and False are false
The(opt) == CHOOSE v \in opt : TRUE

TruthyInt(opt) == opt # {} /\ The(opt) # 0

TruthyStr(opt) == opt # {} /\ The(opt) # ""

TruthyList(opt) == opt # {} /\ The(opt) # <<>>

TruthyBool(opt) == opt # {} /\ The(opt)

\* util.get_regex_padding(padmin, padmax): the quantifier, or ResolverError
get_regex_padding(padmin, padmax) ==
    IF padmin # {} /\ The(padmin) < 0 THEN [ok |-> FALSE, min |-> 0, max |-> {}]
    ELSE IF padmax # {} /\ The(padmax) < 0 THEN [ok |-> FALSE, min |-> 0, max |-> {}]
    ELSE IF padmin # {} /\ padmax # {}
    THEN IF The(padmax) < The(padmin) THEN [ok |-> FALSE, min |-> 0, max |-> {}]
         ELSE [ok |-> TRUE, min |-> The(padmin), max |-> padmax]
    ELSE IF padmin # {} THEN [ok |-> TRUE, min |-> The(padmin), max |-> {}]
    ELSE IF padmax # {} THEN [ok |-> TRUE, min |-> 0, max |-> padmax]
    ELSE [ok |-> TRUE, min |-> 1, max |-> {}]

\* util.get_case_regex(case): the leading class and the repeated class
get_case_regex(case) ==
    CASE case = "lower" -> [ok |-> TRUE, lead |-> {}, cls |-> LowerClass]
      [] case = "lowerCamel" -> [ok |-> TRUE, lead |-> LowerClass, cls |-> REGEX_STR]
      [] case = "upper" -> [ok |-> TRUE, lead |-> {}, cls |-> UpperClass]
      [] case = "UpperCamel" -> [ok |-> TRUE, lead |-> UpperClass, cls |-> REGEX_STR]
      [] OTHER -> [ok |-> FALSE, lead |-> {}, cls |-> {}]

NoRx == [ok |-> FALSE, rx |-> NoRegex]

\* Token.get_regex_from_config, with cls.REGEX = REGEX
Token_get_regex_from_config(REGEX, config) ==
    IF config.regex = {}
    THEN IF TruthyList(config.choices)
         THEN [ok |-> TRUE, rx |-> ChoicesRegex(The(config.choices))]
         ELSE LET padding == get_regex_padding(config.padmin, config.padmax)
              IN  IF ~padding.ok THEN NoRx
                  ELSE [ok |-> TRUE,
                        rx |-> ClassRegex(REGEX, padding.min, padding.max)]
    ELSE IF TruthyList(config.choices) \/ TruthyInt(config.padmin) \/ TruthyInt(config.padmax)
    THEN NoRx
    ELSE [ok |-> TRUE, rx |-> The(config.regex)]

\* StringToken.get_regex_from_config
StringToken_get_regex_from_config(config) ==
    IF config.regex = {} /\ TruthyStr(config.case)
    THEN LET case == The(config.case)
             regex == get_case_regex(case)
             camel == case \in {"lowerCamel", "UpperCamel"}
             padmin == IF ~camel THEN config.padmin
                       ELSE IF TruthyInt(config.padmin) THEN {The(config.padmin) - 1}
                       ELSE {}
             padmax == IF ~camel THEN config.padmax
                       ELSE IF TruthyInt(config.padmax) THEN {The(config.padmax) - 1}
                       ELSE {}
             padding == get_regex_padding(padmin, padmax)
         IN  IF ~regex.ok \/ ~padding.ok THEN NoRx
             ELSE [ok |-> TRUE,
                   rx |-> TokenRegex(regex.lead, regex.cls, padding.min,
                                     padding.max, <<>>)]
    ELSE IF config.case # {} THEN NoRx
    ELSE Token_get_regex_from_config(REGEX_STR, config)

\* Token.get_format_spec_from_config plus the "d" or "s" the subclasses
\* append; StringToken first does config.setdefault("padstrict", True).
\* A format spec given in the configuration is a FormatSpec whose type is
\* still to be appended.
get_format_spec_from_config(type, config) ==
    LET padstrict == IF type = "str" /\ config.padstrict = {} THEN {TRUE}
                     ELSE config.padstrict
        PADALIGN == IF type = "int" THEN DEFAULT_PADALIGN_INT ELSE DEFAULT_PADALIGN_STR
        PADCHAR == IF type = "int" THEN DEFAULT_PADCHAR_INT ELSE DEFAULT_PADCHAR_STR
        code == IF type = "int" THEN "d" ELSE "s"
    IN  IF config.format_spec # {}
        THEN [The(config.format_spec) EXCEPT !.type = code]
        ELSE IF config.padmin = {} \/ TruthyBool(padstrict)
        THEN FormatSpec("", "", 0, code)
        ELSE FormatSpec(IF config.padchar = {} THEN PADCHAR ELSE The(config.padchar),
                        IF config.padalign = {} THEN PADALIGN ELSE The(config.padalign),
                        The(config.padmin), code)

(***************************************************************************)
(* The resolver's registry of tokens (resolver.py)                         *)
(***************************************************************************)
\* what a resolver method did: the exception or "ok", the resolver after
\* the call and the object returned
Did(status, res, obj) == [status |-> status, resolver |-> res, obj |-> obj]

\* TemplateResolver.get_token_cls: the class, as the type it builds
get_token_cls(token_type) ==
    IF token_type \in {"int", "str"} THEN [ok |-> TRUE, cls |-> token_type]
    ELSE [ok |-> FALSE, cls |-> ""]

\* TemplateResolver.create_token
create_token(res, token_name, token_config) ==
    LET token_cls == get_token_cls(token_config.type)
        regex == IF token_cls.cls = "int"
                 THEN Token_get_regex_from_config(REGEX_INT, token_config)
                 ELSE StringToken_get_regex_from_config(token_config)
        format_spec == get_format_spec_from_config(token_cls.cls, token_config)
        token_obj == Token(token_name, token_cls.cls, regex.rx, format_spec,
                           token_config.default)
    IN  IF token_name \in DOMAIN res.tokens THEN Did("ResolverError", res, NoToken)
        ELSE IF ~token_cls.ok THEN Did("ResolverError", res, NoToken)
        ELSE IF ~regex.ok THEN Did("ResolverError", res, NoToken)
        ELSE Did("ok", [res EXCEPT !.tokens = Put(res.tokens, token_name, token_obj)],
                 token_obj)

\* the values a token configuration gives to padmin and padmax
MaxPad == 3

Pads == {{}} \cup {{n} : n \in (-1)..MaxPad}

TokenConfigs ==
    {[BaseConfig(type) EXCEPT !.regex = regex, !.choices = choices,
                              !.padmin = padmin, !.padmax = padmax,
                              !.case = case, !.padstrict = padstrict] :
        type \in {"int", "str"},
        regex \in {{}, {Plus(REGEX_INT)}},
        choices \in {{}, {<<>>}, {<<<<"a">>, <<"1">>>>}},
        padmin \in Pads, padmax \in Pads,
        case \in {{}, {""}, {"lower"}, {"UpperCamel"}, {"snake"}},
        padstrict \in {{}, {FALSE}}}

\* resolver.create_token("t", config) on a new resolver
InitCreateToken ==
    /\ pc = "ready"
    /\ op = "none"
    /\ tmpl = NoTemplate
    /\ string = <<>>
    /\ fields = EmptyMap
    /\ unformatted = EmptyMap
    /\ use_defaults = TRUE
    /\ tok = NoToken
    /\ value = NoValue
    /\ result = Idle
    /\ arg_local_only = FALSE
    /\ resolver = EmptyResolver
    /\ request \in {[call |-> "create_token", token_name |-> "t", token_config |-> c] :
                        c \in TokenConfigs}
    /\ constants_module = ConstantsOfResolver

CreateToken ==
    /\ pc = "ready"
    /\ request.call = "create_token"
    /\ LET did == create_token(resolver, request.token_name, request.token_config)
       IN  /\ pc' = "done"
           /\ op' = "create_token"
           /\ result' = Outcome(did.status)
           /\ resolver' = did.resolver
           /\ tok' = did.obj
    /\ UNCHANGED <<tmpl, string, fields, unformatted, use_defaults, value,
                   arg_local_only, request, constants_module>>

NextCreateToken == CreateToken

SpecCreateToken == InitCreateToken /\ [][NextCreateToken]_vars

(***************************************************************************)
(* The resolver's registry of templates (resolver.py)                      *)
(***************************************************************************)
\* \w
WordChars == REGEX_STR \cup REGEX_INT \cup {"_"}

\* constants.SYMBOL_TEMPLATE
SYMBOL_TEMPLATE == "@"

\* constants.TEMPLATE_TYPE_PATH
TEMPLATE_TYPE_PATH == "path"

\* the other constants module of the source tree; it has no
\* TEMPLATE_TYPE_PATH and its TOKEN_PATTERN takes no "." in a name
ConstantsOfPackage == "src/python/templater/constants.py"

\* constants.TOKEN_PATTERN, "{(\W)?([\w\.]+)}" or "{(\W)?(\w+)}": the
\* characters of its second group
TOKEN_PATTERN(module) ==
    IF module = ConstantsOfResolver THEN WordChars \cup {"."} ELSE WordChars

RECURSIVE Join(_)
Join(chars) == IF chars = <<>> THEN "" ELSE chars[1] \o Join(Tail(chars))

\* the index after the longest run of characters of cls that starts at i
RECURSIVE NameRun(_, _, _)
NameRun(s, i, cls) ==
    IF i <= Len(s) /\ s[i] \in cls THEN NameRun(s, i + 1, cls) ELSE i

NoPlaceholder == [ok |-> FALSE, start |-> 0, end |-> 0, symbol |-> "", name |-> <<>>]

\* TOKEN_PATTERN matched at index i: the optional \W symbol is tried first,
\* then the pattern without it
placeholder_at(s, i, cls) ==
    LET try(j, symbol) ==
            LET e == NameRun(s, j, cls)
            IN  IF e > j /\ e <= Len(s) /\ s[e] = "}"
                THEN [ok |-> TRUE, start |-> i, end |-> e, symbol |-> symbol,
                      name |-> SubSeq(s, j, e - 1)]
                ELSE NoPlaceholder
        with_symbol ==
            IF i + 1 <= Len(s) /\ s[i + 1] \notin WordChars
            THEN try(i + 2, s[i + 1]) ELSE NoPlaceholder
    IN  IF i > Len(s) \/ s[i] # "{" THEN NoPlaceholder
        ELSE IF with_symbol.ok THEN with_symbol
        ELSE try(i + 1, "")

\* re.finditer(constants.TOKEN_PATTERN, template_string), from index i
RECURSIVE finditer(_, _, _)
finditer(s, i, cls) ==
    IF i > Len(s) THEN <<>>
    ELSE LET m == placeholder_at(s, i, cls)
         IN  IF m.ok THEN <<m>> \o finditer(s, m.end + 1, cls)
             ELSE finditer(s, i + 1, cls)

\* name.find("."): the index of the first ".", 0 when there is none
RECURSIVE find_dot(_, _)
find_dot(name, i) ==
    IF i > Len(name) THEN 0
    ELSE IF name[i] = "." THEN i ELSE find_dot(name, i + 1)

\* a template definition of a configuration: a str, or a dict with the key
\* "string"
Str(s) == [isdict |-> FALSE, string |-> s]

Dict(s) == [isdict |-> TRUE, string |-> s]

\* os.environ of the process: V is set to "a"
Environ == [V |-> <<"a">>]

\* the index of the first "}" of s at or after i, 0 when there is none
RECURSIVE find_brace(_, _)
find_brace(s, i) ==
    IF i > Len(s) THEN 0
    ELSE IF s[i] = "}" THEN i ELSE find_brace(s, i + 1)

\* the substitution loop of posixpath.expandvars from index i: "$name" and
\* "${name}" give the value of a variable that is set and stay as they are
\* otherwise; a value is not expanded again
RECURSIVE expand_from(_, _)
expand_from(s, i) ==
    IF i > Len(s) THEN <<>>
    ELSE IF s[i] # "$" THEN <<s[i]>> \o expand_from(s, i + 1)
    ELSE LET word_end == NameRun(s, i + 1, WordChars)
             brace == IF i + 1 <= Len(s) /\ s[i + 1] = "{"
                      THEN find_brace(s, i + 2) ELSE 0
             end == IF word_end > i + 1 THEN word_end - 1 ELSE brace
             name == IF word_end > i + 1 THEN SubSeq(s, i + 1, end)
                     ELSE SubSeq(s, i + 2, end - 1)
         IN  IF end = 0 THEN <<"$">> \o expand_from(s, i + 1)
             ELSE IF name # <<>> /\ Join(name) \in DOMAIN Environ
             THEN Environ[Join(name)] \o expand_from(s, end + 1)
             ELSE SubSeq(s, i, end) \o expand_from(s, end + 1)

\* os.path.expandvars(string); a dict raises TypeError
expandvars(definition) ==
    IF definition.isdict THEN [ok |-> FALSE, s |-> <<>>]
    ELSE [ok |-> TRUE, s |-> expand_from(definition.string, 1)]

\* PathTemplate(name, segments): a Template of class PathTemplate
PathTemplate(name, segments) == [cls |-> "PathTemplate"] @@ Template(name, segments)

IsPathTemplate(t) == "cls" \in DOMAIN t

\* TemplateResolver.has_template
has_template(res, template_type, name) ==
    /\ template_type \in DOMAIN res.templates
    /\ name \in DOMAIN res.templates[template_type]

\* TemplateResolver.get_template_cls: reading constants.TEMPLATE_TYPE_PATH
\* raises AttributeError under the constants module that lacks it
get_template_cls(module, template_type) ==
    IF module # ConstantsOfResolver THEN [ok |-> FALSE, cls |-> ""]
    ELSE IF template_type = TEMPLATE_TYPE_PATH THEN [ok |-> TRUE, cls |-> "PathTemplate"]
    ELSE [ok |-> TRUE, cls |-> "Template"]

\* self._templates.setdefault(template_type, {})[template_name] = template_obj
register(res, template_type, template_name, template_obj) ==
    LET group == IF template_type \in DOMAIN res.templates
                 THEN res.templates[template_type] ELSE EmptyMap
    IN  [res EXCEPT !.templates =
            Put(res.templates, template_type, Put(group, template_name, template_obj)),
                    !.stored =
            Append(res.stored, [template_type |-> template_type,
                                template_name |-> template_name,
                                template_obj |-> template_obj])]

\* (reference_config or {}).get(subtype, {}).get(name): {} for None
ref_string(reference_config, subtype, name) ==
    IF reference_config = {} THEN {}
    ELSE LET config == The(reference_config)
         IN  IF subtype \in DOMAIN config /\ name \in DOMAIN config[subtype]
             THEN {config[subtype][name]} ELSE {}

\* the depth of nested create_template calls at which the interpreter
\* raises RecursionError
MaxDepth == 4

\* TemplateResolver.create_template(template_name, template_type, string,
\* reference_config) with definition for its string argument;
\* reference_config is {} for None. scan is the body of the loop over the placeholders of the string.
RECURSIVE create_template(_, _, _, _, _, _, _)
RECURSIVE scan(_, _, _, _, _, _, _, _, _, _)
create_template(res, module, template_name, template_type, definition, reference_config, depth) ==
    IF depth > MaxDepth THEN Did("RecursionError", res, NoTemplate)
    ELSE IF has_template(res, template_type, template_name)
    THEN Did("ResolverError", res, NoTemplate)
    ELSE IF ~expandvars(definition).ok THEN Did("TypeError", res, NoTemplate)
    ELSE LET template_string == expandvars(definition).s
             matches == finditer(template_string, 1, TOKEN_PATTERN(module))
             loop == scan(res, module, template_type, template_string, matches,
                          1, 1, <<>>, reference_config, depth)
             last_string_segment ==
                 SubSeq(template_string, loop.index, Len(template_string))
             segments == IF last_string_segment # <<>>
                         THEN Append(loop.segments, Lit(last_string_segment))
                         ELSE loop.segments
             template_cls == get_template_cls(module, template_type)
             template_obj == IF template_cls.cls = "PathTemplate"
                             THEN PathTemplate(template_name, segments)
                             ELSE Template(template_name, segments)
         IN  IF loop.status # "ok" THEN Did(loop.status, loop.resolver, NoTemplate)
             ELSE IF ~template_cls.ok
             THEN Did("AttributeError", loop.resolver, NoTemplate)
             ELSE Did("ok",
                      register(loop.resolver, template_type, template_name, template_obj),
                      template_obj)

scan(res, module, template_type, template_string, matches, k, index, segments, reference_config, depth) ==
    IF k > Len(matches)
    THEN [status |-> "ok", resolver |-> res, index |-> index, segments |-> segments]
    ELSE
    LET match == matches[k]
        fixed == IF match.start # index
                 THEN Append(segments, Lit(SubSeq(template_string, index, match.start - 1)))
                 ELSE segments
        failed(status, r) ==
            [status |-> status, resolver |-> r, index |-> match.end + 1,
             segments |-> fixed]
        next(r, segment) ==
            scan(r, module, template_type, template_string, matches, k + 1,
                 match.end + 1, Append(fixed, segment), reference_config, depth)
    IN  IF match.symbol = SYMBOL_TEMPLATE
        THEN LET sep_index == find_dot(match.name, 1)
                 subtype == IF sep_index = 0 THEN template_type
                            ELSE Join(SubSeq(match.name, 1, sep_index - 1))
                 name == IF sep_index = 0 THEN Join(match.name)
                         ELSE Join(SubSeq(match.name, sep_index + 1, Len(match.name)))
                 ref == ref_string(reference_config, subtype, name)
             IN  IF has_template(res, subtype, name)
                 THEN next(res, res.templates[subtype][name])
                 ELSE IF ref = {} THEN failed("ResolverError", res)
                 ELSE LET made == create_template(res, module, name, subtype, The(ref),
                                                  reference_config, depth + 1)
                      IN  IF made.status # "ok" THEN failed(made.status, made.resolver)
                          ELSE next(made.resolver, made.obj)
        ELSE IF match.symbol = ""
        THEN IF Join(match.name) \in DOMAIN res.tokens
             THEN next(res, Tok(res.tokens[Join(match.name)]))
             ELSE failed("ResolverError", res)
        ELSE failed("ResolverError", res)

\* a token configuration given as a bare type string
Bare(type) == [bare |-> type]

\* if isinstance(token_data, str): token_data = {KEY_TYPE: token_data}
token_data_of(data) == IF "bare" \in DOMAIN data THEN BaseConfig(data.bare) ELSE data

\* the template part of a configuration, an ordered dict of ordered dicts,
\* read as the reference_config of create_template
RefTable(template_config) ==
    [template_type \in {template_config[i].type : i \in 1..Len(template_config)} |->
        LET type_data == (CHOOSE i \in 1..Len(template_config) :
                              template_config[i].type = template_type)
            items == template_config[type_data].items
        IN  [name \in {items[j].name : j \in 1..Len(items)} |->
                items[CHOOSE j \in 1..Len(items) : items[j].name = name].definition]]

\* TemplateResolver.from_config: the loop over the token configurations
RECURSIVE load_tokens(_, _, _)
load_tokens(res, token_config, i) ==
    IF i > Len(token_config) THEN Did("ok", res, NoToken)
    ELSE LET made == create_token(res, token_config[i].name,
                                  token_data_of(token_config[i].data))
         IN  IF made.status # "ok" THEN made
             ELSE load_tokens(made.resolver, token_config, i + 1)

\* TemplateResolver.from_config: the loops over the template types and their
\* templates; a dict definition gives its "string" to create_template
RECURSIVE load_templates(_, _, _, _, _)
load_templates(res, module, template_config, i, j) ==
    IF i > Len(template_config) THEN Did("ok", res, NoTemplate)
    ELSE IF j > Len(template_config[i].items)
    THEN load_templates(res, module, template_config, i + 1, 1)
    ELSE LET template_type == template_config[i].type
             item == template_config[i].items[j]
         IN  IF has_template(res, template_type, item.name)
             THEN load_templates(res, module, template_config, i, j + 1)
             ELSE LET made == create_template(res, module, item.name, template_type,
                                              Str(item.definition.string),
                                              {RefTable(template_config)}, 1)
                  IN  IF made.status # "ok" THEN made
                      ELSE load_templates(made.resolver, module, template_config,
                                          i, j + 1)

\* TemplateResolver.from_config(config): tokens first, then templates; the
\* resolver is the one the method builds, as far as it got
from_config(module, config) ==
    LET tokens == load_tokens(EmptyResolver, config.tokens, 1)
    IN  IF tokens.status # "ok" THEN tokens
        ELSE load_templates(tokens.resolver, module, config.templates, 1, 1)

(***************************************************************************)
(* Calls on a resolver: from_config, create_token, create_template         *)
(***************************************************************************)
\* definition strings
d_plain == <<"x">>
d_token == <<"{", "s", "}">>
d_path == <<"/", "r", "/", "{", "s", "}">>
d_child == <<"{", "@", "B", "}">>
d_self == <<"{", "@", "A", "}">>
d_both == <<"{", "n", "}", "_", "{", "@", "B", "}">>
d_missing_token == <<"{", "@", "B", "}", "{", "m", "}">>
d_missing_template == <<"{", "@", "C", "}">>
d_symbol == <<"{", "#", "s", "}">>
d_group == <<"{", "@", "p", "a", "t", "h", ".", "A", "}">>
d_cross == <<"/", "r", "/", "{", "@", "s", "t", "r", "i", "n", "g", ".", "B", "}">>
d_env == <<"$", "V", "{", "@", "B", "}", "-", "{", "s", "}", "x">>
d_trail == <<"{", "@", "B", "}", "-", "{", "s", "}", "x">>

TemplateTypes == {"string", "path", "unknown"}

TemplateNames == {"A", "B"}

Item(name, definition) == [name |-> name, definition |-> definition]

TypeData(type, items) == [type |-> type, items |-> items]

\* the template parts of the configurations
only_child == <<TypeData("string", <<Item("B", Str(d_plain))>>)>>

child_first == <<TypeData("string", <<Item("A", Str(d_plain)), Item("B", Str(d_self))>>)>>

two_cycle == <<TypeData("string", <<Item("A", Str(d_child)), Item("B", Str(d_self))>>)>>

one_cycle == <<TypeData("string", <<Item("A", Str(d_self))>>)>>

parent_first ==
    <<TypeData("string", <<Item("A", Str(d_both)), Item("B", Str(d_token))>>),
      TypeData("path", <<Item("A", Str(d_cross))>>)>>

parent_first_dict ==
    <<TypeData("string", <<Item("A", Str(d_both)), Item("B", Dict(d_token))>>)>>

dict_first ==
    <<TypeData("string", <<Item("B", Dict(d_token)), Item("A", Str(d_both))>>),
      TypeData("path", <<Item("A", Dict(d_path))>>)>>

missing_token == <<TypeData("string", <<Item("A", Str(d_missing_token)), Item("B", Str(d_plain))>>)>>

unknown_type == <<TypeData("unknown", <<Item("A", Str(d_plain))>>)>>

TemplateConfigs ==
    {only_child, child_first, two_cycle, one_cycle, parent_first,
     parent_first_dict, dict_first, missing_token, unknown_type}

\* the calls of create_template; reference_config is {} for None or {table}
TemplateCall(template_name, template_type, definition, reference_config) ==
    [call |-> "create_template", template_name |-> template_name,
     template_type |-> template_type, definition |-> definition,
     reference_config |-> reference_config]

TemplateCalls ==
    {TemplateCall(name, type, d_plain, {}) : name \in TemplateNames, type \in TemplateTypes}
        \cup {TemplateCall("A", "string", d, {}) :
                    d \in {d_token, d_child, d_self, d_both, d_missing_template,
                           d_symbol, d_group}}
        \cup {TemplateCall("A", "path", d_path, {}),
              TemplateCall("B", "path", d_group, {}),
              TemplateCall("A", "path", d_cross, {}),
              TemplateCall("A", "path", d_cross, {RefTable(only_child)})}
        \cup {TemplateCall("A", "string", d, {RefTable(only_child)}) :
                    d \in {d_child, d_both, d_missing_token, d_missing_template,
                           d_trail, d_env}}
        \cup {TemplateCall("A", "string", d, {RefTable(child_first)}) :
                    d \in {d_child, d_missing_token}}
        \cup {TemplateCall("A", "string", d_child, {RefTable(two_cycle)}),
              TemplateCall("A", "string", d_self, {RefTable(one_cycle)}),
              TemplateCall("B", "string", d_self, {RefTable(one_cycle)})}

\* the calls of create_token
TokenCalls ==
    {[call |-> "create_token", token_name |-> "n", token_config |-> BaseConfig(type)] :
        type \in {"int", "float"}}
        \cup {[call |-> "create_token", token_name |-> "s",
               token_config |-> BaseConfig("str")]}

\* how many tokens and templates a resolver holds
RECURSIVE SumOver(_, _)
SumOver(f, keys) ==
    IF keys = {} THEN 0
    ELSE LET k == CHOOSE k \in keys : TRUE
         IN  Cardinality(DOMAIN f[k]) + SumOver(f, keys \ {k})

Registered(res) ==
    Cardinality(DOMAIN res.tokens) + SumOver(res.templates, DOMAIN res.templates)

\* create calls are made on a resolver that holds fewer objects than this
MaxRegistered == 3

\* the token parts of the configurations
TokenItem(name, data) == [name |-> name, data |-> data]

both_tokens == <<TokenItem("n", Bare("int")), TokenItem("s", BaseConfig("str"))>>

float_token == <<TokenItem("n", Bare("float"))>>

Configs ==
    {[tokens |-> both_tokens, templates |-> t] : t \in TemplateConfigs}
        \cup {[tokens |-> float_token, templates |-> only_child]}

\* a resolver is constructed, or built by from_config, and create_token and
\* create_template are then called on it
InitResolver ==
    /\ pc = "ready"
    /\ op = "none"
    /\ tmpl = NoTemplate
    /\ string = <<>>
    /\ fields = EmptyMap
    /\ unformatted = EmptyMap
    /\ use_defaults = TRUE
    /\ tok = NoToken
    /\ value = NoValue
    /\ result = Idle
    /\ arg_local_only = FALSE
    /\ resolver = EmptyResolver
    /\ request = NoRequest
    /\ constants_module \in {ConstantsOfResolver, ConstantsOfPackage}

\* what every call on the resolver does to the state
Called(name, args, did) ==
    /\ pc' = "called"
    /\ op' = name
    /\ request' = args
    /\ result' = Outcome(did.status)
    /\ resolver' = did.resolver
    /\ UNCHANGED <<string, fields, unformatted, use_defaults, value,
                   arg_local_only, constants_module>>

\* resolver = TemplateResolver.from_config(config)
FromConfig ==
    /\ pc = "ready"
    /\ \E config \in Configs :
          /\ Called("from_config", [call |-> "from_config", config |-> config],
                    from_config(constants_module, config))
          /\ UNCHANGED <<tmpl, tok>>

\* resolver.create_token(token_name, token_config)
ResolverCreateToken ==
    /\ Registered(resolver) < MaxRegistered
    /\ \E call \in TokenCalls :
        LET did == create_token(resolver, call.token_name, call.token_config)
        IN  /\ Called("create_token", call, did)
            /\ tok' = did.obj
            /\ UNCHANGED tmpl

\* resolver.create_template(template_name, template_type, string, reference_config)
ResolverCreateTemplate ==
    /\ Registered(resolver) < MaxRegistered
    /\ \E call \in TemplateCalls :
        LET did == create_template(resolver, constants_module, call.template_name,
                                   call.template_type, Str(call.definition),
                                   call.reference_config, 1)
        IN  /\ Called("create_template", call, did)
            /\ tmpl' = did.obj
            /\ UNCHANGED tok

\* template.pattern(formatters) on the template create_template returned
ResolverPattern ==
    /\ pc = "called"
    /\ op = "create_template"
    /\ result.status = "ok"
    /\ \E formatters \in BOOLEAN :
          /\ request' = [call |-> "pattern", formatters |-> formatters,
                         created |-> request]
          /\ result' = [Returned EXCEPT !.text = Template_pattern(tmpl, formatters)]
    /\ op' = "pattern"
    /\ UNCHANGED <<pc, tmpl, string, fields, unformatted, use_defaults, tok,
                   value, arg_local_only, resolver, constants_module>>

NextResolver ==
    FromConfig \/ ResolverCreateToken \/ ResolverCreateTemplate \/ ResolverPattern

SpecResolver == InitResolver /\ [][NextResolver]_vars

(***************************************************************************)
(* Path templates (pathtemplate.py)                                        *)
(***************************************************************************)
\* the characters of the paths: a letter and the two separators
PathChars == {"a", "/", "\\"}

PathStrings == UNION {[1..n -> PathChars] : n \in 0..MaxLen}

\* path.replace("\\", "/")
agnostic(path) == [i \in 1..Len(path) |-> IF path[i] = "\\" THEN "/" ELSE path[i]]

\* path.lstrip("/")
RECURSIVE lstrip(_)
lstrip(path) ==
    IF path # <<>> /\ Head(path) = "/" THEN lstrip(Tail(path)) ELSE path

\* path.split("/")
RECURSIVE split(_, _)
split(path, comp) ==
    IF path = <<>> THEN <<comp>>
    ELSE IF Head(path) = "/" THEN <<comp>> \o split(Tail(path), <<>>)
    ELSE split(Tail(path), Append(comp, Head(path)))

NonEmpty(comp) == comp # <<>>

\* "/".join(comps)
RECURSIVE join(_)
join(comps) ==
    IF comps = <<>> THEN <<>>
    ELSE IF Len(comps) = 1 THEN comps[1]
    ELSE comps[1] \o <<"/">> \o join(Tail(comps))

\* posixpath.normpath(path) on a path without "." or ".." components: empty
\* components go, one leading slash (or exactly two) stays, "" becomes "."
normpath(path) ==
    LET slashes == Len(path) - Len(lstrip(path))
        initial == IF slashes = 0 THEN <<>>
                   ELSE IF slashes = 2 THEN <<"/", "/">> ELSE <<"/">>
        normal == initial \o join(SelectSeq(split(path, <<>>), NonEmpty))
    IN  IF normal = <<>> THEN <<".">> ELSE normal

\* PathTemplate.parse
PathTemplate_parse(t, s) == Template_parse(t, agnostic(s))

\* PathTemplate.extract and PathTemplate.parse_debug are Template's own
PathTemplate_extract(t, s) == Template_extract(t, s)

PathTemplate_parse_debug(t, s) == Template_parse_debug(t, s)

\* PathTemplate.extract_relative: the fields and the normalised remainder
PathTemplate_extract_relative(t, path) ==
    LET agnostic_path == agnostic(path)
        extracted == Template_extract(t, agnostic_path)
        relative_path == lstrip(SubSeq(agnostic_path, extracted.end + 1,
                                       Len(agnostic_path)))
    IN  IF extracted.status # "ok" THEN extracted
        ELSE [extracted EXCEPT !.text = normpath(relative_path)]

\* "/a/{s}", "{s}/{s}" and "/{s}"
PathTemplates ==
    {PathTemplate("root", <<Lit(<<"/", "a", "/">>), Tok(tok_s)>>),
     PathTemplate("pair", <<Tok(tok_s), Lit(<<"/">>), Tok(tok_s)>>),
     PathTemplate("top", <<Lit(<<"/">>), Tok(tok_s)>>)}

\* a path template and a path are chosen; one of the four operations is
\* then called on them
InitPath ==
    /\ pc = "ready"
    /\ op = "none"
    /\ tmpl \in PathTemplates
    /\ string \in PathStrings
    /\ fields = EmptyMap
    /\ unformatted = EmptyMap
    /\ use_defaults = TRUE
    /\ tok = NoToken
    /\ value = NoValue
    /\ result = Idle
    /\ NoResolverCall

PathTemplateParse ==
    /\ Call("PathTemplate.parse", PathTemplate_parse(tmpl, string))
    /\ UNCHANGED <<tmpl, string, fields, unformatted, use_defaults, tok, value,
                   arg_local_only, resolver, request, constants_module>>

PathTemplateExtract ==
    /\ Call("PathTemplate.extract", PathTemplate_extract(tmpl, string))
    /\ UNCHANGED <<tmpl, string, fields, unformatted, use_defaults, tok, value,
                   arg_local_only, resolver, request, constants_module>>

PathTemplateExtractRelative ==
    /\ Call("PathTemplate.extract_relative", PathTemplate_extract_relative(tmpl, string))
    /\ UNCHANGED <<tmpl, string, fields, unformatted, use_defaults, tok, value,
                   arg_local_only, resolver, request, constants_module>>

PathTemplateParseDebug ==
    /\ Call("PathTemplate.parse_debug", PathTemplate_parse_debug(tmpl, string))
    /\ UNCHANGED <<tmpl, string, fields, unformatted, use_defaults, tok, value,
                   arg_local_only, resolver, request, constants_module>>

NextPath ==
    \/ PathTemplateParse
    \/ PathTemplateExtract
    \/ PathTemplateExtractRelative
    \/ PathTemplateParseDebug

SpecPath == InitPath /\ [][NextPath]_vars

(***************************************************************************)
(* PathTemplate.format and the generator PathTemplate.paths                *)
(***************************************************************************)
SYMBOL_PATH_WILDCARD == <<"*">>

\* PathTemplate.format: Template.format, then os.path.normpath on the text
PathTemplate_format(t, flds, unf, defaults) ==
    LET path == Template_format(t, flds, unf, defaults)
    IN  IF path.status # "ok" THEN path
        ELSE [path EXCEPT !.text = normpath(path.text)]

\* the unformatted dict of paths: every wildcard name mapped to "*"
wildcard_dict(wildcards) == [field \in wildcards |-> SYMBOL_PATH_WILDCARD]

\* the loop of paths from the candidate after index up to the next yield:
\* a candidate whose parse raises ParseError is passed over, any other
\* exception leaves the generator
RECURSIVE paths_next(_, _, _)
paths_next(t, candidates, index) ==
    IF index >= Len(candidates)
    THEN [status |-> "StopIteration", index |-> index, fields |-> EmptyMap]
    ELSE LET parsed == PathTemplate_parse(t, agnostic(candidates[index + 1]))
         IN  IF parsed.status = "ParseError"
             THEN paths_next(t, candidates, index + 1)
             ELSE IF parsed.status = "ok"
             THEN [status |-> "yield", index |-> index + 1, fields |-> parsed.fields]
             ELSE [status |-> parsed.status, index |-> index + 1, fields |-> EmptyMap]

\* "/{s}", "/a/{s}", "{@root}/{t}", "{@root}/{p}" (p has a default) and
\* "{@root}/{s}"
path_root == PathTemplate("root", <<Lit(<<"/">>), Tok(tok_s)>>)

PathsTemplates ==
    {path_root,
     PathTemplate("flat", <<Lit(<<"/", "a", "/">>), Tok(tok_s)>>),
     PathTemplate("nested", <<path_root, Lit(<<"/">>), Tok(tok_t)>>),
     PathTemplate("defaulted", <<path_root, Lit(<<"/">>), Tok(tok_p)>>),
     PathTemplate("repeat", <<path_root, Lit(<<"/">>), Tok(tok_s)>>)}

\* the longest list of candidates glob.iglob hands back
MaxCandidates == 2

\* the paths glob.iglob may hand back
Candidates == {<<"/", "a">>, <<"\\", "a">>, <<"/", "a", "/", "a">>,
               <<"/", "a", "\\", "a">>, <<"/", "a", "/", "a", "a">>, <<"a">>}

CandidateLists == UNION {[1..n -> Candidates] : n \in 0..MaxCandidates}

\* a path template, the fields, the wildcard names and the candidates the
\* file system holds are chosen; paths() is called and then iterated
InitPaths ==
    /\ pc = "ready"
    /\ op = "none"
    /\ tmpl \in PathsTemplates
    /\ string = <<>>
    /\ fields \in Maps(TokenNames(tmpl), {StrVal(<<"a">>), StrVal(<<"a", "a">>)})
    /\ unformatted = EmptyMap
    /\ use_defaults = TRUE
    /\ tok = NoToken
    /\ value = NoValue
    /\ result = Idle
    /\ arg_local_only = FALSE
    /\ resolver = EmptyResolver
    /\ \E wildcards \in SUBSET TokenNames(tmpl), candidates \in CandidateLists :
          request = [call |-> "paths", wildcards |-> wildcards,
                     candidates |-> candidates, index |-> 0]
    /\ constants_module = ConstantsOfResolver

\* g = tmpl.paths(fields, wildcards): a generator, none of its body has run
Paths ==
    /\ pc = "ready"
    /\ pc' = "created"
    /\ op' = "PathTemplate.paths"
    /\ UNCHANGED <<tmpl, string, fields, unformatted, use_defaults, tok, value,
                   result, arg_local_only, resolver, request, constants_module>>

\* the first next(g): the glob pattern is formatted; an exception of format
\* ends the generator
PathsFormat ==
    /\ pc = "created"
    /\ unformatted' = wildcard_dict(request.wildcards)
    /\ LET path_string == PathTemplate_format(tmpl, fields, unformatted', TRUE)
       IN  /\ string' = path_string.text
           /\ IF path_string.status = "ok"
              THEN pc' = "globbing" /\ UNCHANGED result
              ELSE pc' = "done" /\ result' = path_string
    /\ UNCHANGED <<op, tmpl, fields, use_defaults, tok, value, arg_local_only,
                   resolver, request, constants_module>>

\* the body of the generator up to its next yield, its return or an
\* exception; result.items holds the pairs yielded so far
PathsNext ==
    /\ pc = "globbing"
    /\ LET step == paths_next(tmpl, request.candidates, request.index)
       IN  /\ request' = [request EXCEPT !.index = step.index]
           /\ IF step.status = "yield"
              THEN /\ pc' = "globbing"
                   /\ result' =
                        [Outcome("yield") EXCEPT !.items =
                            Append(result.items,
                                   [path |-> request.candidates[step.index],
                                    fields |-> step.fields])]
              ELSE /\ pc' = "done"
                   /\ result' = [result EXCEPT !.status = step.status]
    /\ UNCHANGED <<op, tmpl, string, fields, unformatted, use_defaults, tok, value,
                   arg_local_only, resolver, constants_module>>

NextPaths == Paths \/ PathsFormat \/ PathsNext

SpecPaths == InitPaths /\ [][NextPaths]_vars

(***************************************************************************)
(* The loop of parse_debug, one match attempt per step                     *)
(***************************************************************************)
\* "({n}" next to templates of the list above: "{n}_{n}", "{s}.{n}",
\* "a{n}.{s}", "{@child}_{n}" and "{n}_{n}."
paren_t == Template("paren", <<Lit(<<"(">>), Tok(tok_n)>>)

\* Template("alt", [s, "_)|(_", s]): a literal that holds ")|("
alt_t == Template("alt", <<Tok(tok_s), Lit(<<"_", ")", "|", "(", "_">>), Tok(tok_s)>>)

\* Template("alt_n", [n, "_)|(_", n])
alt_n == Template("alt_n", <<Tok(tok_n), Lit(<<"_", ")", "|", "(", "_">>), Tok(tok_n)>>)

DebugTemplates ==
    {t \in Templates : t.name \in {"t01", "t03", "t05", "t06", "t11"}}
        \cup {paren_t, alt_t, alt_n}

DebugStrings == Strings \cup {<<"(", "1">>}

\* a template and a string are chosen; parse_debug is entered and its loop
\* is then run attempt by attempt
InitDebug ==
    /\ pc = "ready"
    /\ op = "none"
    /\ tmpl \in DebugTemplates
    /\ string \in DebugStrings
    /\ fields = EmptyMap
    /\ unformatted = EmptyMap
    /\ use_defaults = TRUE
    /\ tok = NoToken
    /\ value = NoValue
    /\ result = Idle
    /\ arg_local_only = FALSE
    /\ resolver = EmptyResolver
    /\ request = NoRequest
    /\ constants_module = ConstantsOfResolver

\* parse_debug up to its loop: segments, regexes and num_segments are set
\* and the range starts at num_segments
DebugEnter ==
    /\ pc = "ready"
    /\ pc' = "loop"
    /\ op' = "parse_debug"
    /\ request' = [call |-> "parse_debug", attempts |-> 0,
                   segment_index |-> Len(Template_segments(tmpl, FALSE))]
    /\ UNCHANGED <<tmpl, string, fields, unformatted, use_defaults, tok, value,
                   result, arg_local_only, resolver, constants_module>>

\* one pass of the loop body: re.match on the first segment_index
\* sub-patterns, then either `continue` or the end of the call
DebugAttempt ==
    /\ pc = "loop"
    /\ request.segment_index >= 1
    /\ LET segments == Template_segments(tmpl, FALSE)
           pattern == SubSeq(debug_regexes(segments), 1, request.segment_index)
           m == debug_match(pattern, string)
       IN  IF debug_compiles(pattern) /\ ~m.ok
           THEN /\ pc' = "loop"
                /\ request' = [request EXCEPT !.attempts = @ + 1,
                                              !.segment_index = @ - 1]
                /\ UNCHANGED result
           ELSE /\ pc' = "done"
                /\ request' = [request EXCEPT !.attempts = @ + 1]
                /\ result' = IF ~debug_compiles(pattern) THEN ReError
                             ELSE debug_matched(segments, string,
                                                request.segment_index, m)
    /\ UNCHANGED <<op, tmpl, string, fields, unformatted, use_defaults, tok, value,
                   arg_local_only, resolver, constants_module>>

\* the range is used up: "String does not match at all"
DebugExhausted ==
    /\ pc = "loop"
    /\ request.segment_index < 1
    /\ pc' = "done"
    /\ result' = DebugError("DebugParseError", 0, 0, EmptyMap)
    /\ UNCHANGED <<op, tmpl, string, fields, unformatted, use_defaults, tok, value,
                   arg_local_only, resolver, request, constants_module>>

\* prefix_string = "Pattern: "
prefix_string == <<"P", "a", "t", "t", "e", "r", "n", ":", " ">>

\* util.format_string_debugger(template, string, debug_exc): first tells
\* what the first line is made from (the exception, a literal segment or a
\* token segment), segment is the segment indexed ({} when none is), lines
\* are the lines after the first
format_string_debugger(t, s, debug_exc) ==
    LET segments == Template_segments(t, FALSE)
        indexed == debug_exc.segment_index < Len(segments)
        segment == segments[debug_exc.segment_index + 1]
        indent == Len(prefix_string)
    IN  [first |-> IF ~indexed THEN "exception"
                   ELSE IF segment.kind = "str" THEN "String" ELSE "Token",
         segment |-> IF indexed THEN {segment} ELSE {},
         lines |-> <<prefix_string \o Template_pattern(t, FALSE),
                     Repeat(" ", indent) \o s,
                     Append(Repeat(" ", indent + debug_exc.char_index), "^")>>]

\* the caller of parse_debug formats the DebugParseError it caught
DebugFormat ==
    /\ pc = "done"
    /\ op = "parse_debug"
    /\ result.status \in DebugErrors
    /\ pc' = "formatted"
    /\ op' = "format_string_debugger"
    /\ LET message == format_string_debugger(tmpl, string, result)
       IN  /\ request' = [call |-> "format_string_debugger",
                          first |-> message.first, segment |-> message.segment]
           /\ result' = [result EXCEPT !.items = message.lines]
    /\ UNCHANGED <<tmpl, string, fields, unformatted, use_defaults, tok, value,
                   arg_local_only, resolver, constants_module>>

NextDebug == DebugEnter \/ DebugAttempt \/ DebugExhausted \/ DebugFormat

SpecDebug == InitDebug /\ [][NextDebug]_vars

(***************************************************************************)
(* A token built from a list of choices, then parse() or format() on it    *)
(***************************************************************************)
\* the lists given as the "choices" of a configuration
ChoiceLists ==
    {<<<<"a">>>>,
     <<<<"a">>, <<"1">>>>,
     <<<<"1">>, <<"a", "a">>>>,
     <<<<"0">>, <<"a">>, <<"1">>>>,
     <<<<"a", ".">>, <<"0">>>>}

ChoiceConfigs ==
    {[BaseConfig(type) EXCEPT !.choices = {choices}] :
        type \in {"int", "str"}, choices \in ChoiceLists}

\* resolver.create_token("t", config) followed by one call on the token:
\* parse(string) or format(value)
InitChoices ==
    /\ pc = "ready"
    /\ op = "none"
    /\ tmpl = NoTemplate
    /\ fields = EmptyMap
    /\ unformatted = EmptyMap
    /\ use_defaults = TRUE
    /\ tok = NoToken
    /\ result = Idle
    /\ arg_local_only = FALSE
    /\ resolver = EmptyResolver
    /\ constants_module = ConstantsOfResolver
    /\ \E c \in ChoiceConfigs :
          \/ /\ request = [call |-> "create_token", token_name |-> "t",
                           token_config |-> c, then |-> "parse"]
             /\ string \in Strings
             /\ value = NoValue
          \/ /\ request = [call |-> "create_token", token_name |-> "t",
                           token_config |-> c, then |-> "format"]
             /\ string = <<>>
             /\ value \in Values

ChoicesCreate ==
    /\ pc = "ready"
    /\ request.call = "create_token"
    /\ LET did == create_token(resolver, request.token_name, request.token_config)
       IN  /\ pc' = IF did.status = "ok" THEN "built" ELSE "done"
           /\ op' = "create_token"
           /\ result' = Outcome(did.status)
           /\ resolver' = did.resolver
           /\ tok' = did.obj
    /\ UNCHANGED <<tmpl, string, fields, unformatted, use_defaults, value,
                   arg_local_only, request, constants_module>>

\* resolver.token("t").parse(string)
ChoicesParse ==
    /\ pc = "built"
    /\ request.then = "parse"
    /\ pc' = "done"
    /\ op' = "choices_parse"
    /\ result' = Token_parse(resolver.tokens[request.token_name], string)
    /\ UNCHANGED <<tmpl, string, fields, unformatted, use_defaults, tok, value,
                   arg_local_only, resolver, request, constants_module>>

\* resolver.token("t").format(value)
ChoicesFormat ==
    /\ pc = "built"
    /\ request.then = "format"
    /\ pc' = "done"
    /\ op' = "choices_format"
    /\ result' = Token_format(resolver.tokens[request.token_name], value)
    /\ UNCHANGED <<tmpl, string, fields, unformatted, use_defaults, tok, value,
                   arg_local_only, resolver, request, constants_module>>

NextChoices == ChoicesCreate \/ ChoicesParse \/ ChoicesFormat

SpecChoices == InitChoices /\ [][NextChoices]_vars

(***************************************************************************)
(* segments(), tokens() and templates() of a template                      *)
(***************************************************************************)
\* templates nested two levels deep, with one template reached by several
\* paths
mid_t == Template("mid", <<child_n, Lit(<<"_">>), root_sn>>)

deep_t == Template("deep", <<child_n, mid_t, Tok(tok_s), mid_t>>)

flat_t == Template("flat", <<Lit(<<"a">>), Tok(tok_n), Tok(tok_n)>>)

NestedTemplates == Templates \cup {mid_t, deep_t, flat_t}

InitStructure ==
    /\ pc = "ready"
    /\ op = "none"
    /\ tmpl \in NestedTemplates
    /\ string = <<>>
    /\ fields = EmptyMap
    /\ unformatted = EmptyMap
    /\ use_defaults = TRUE
    /\ tok = NoToken
    /\ value = NoValue
    /\ result = Idle
    /\ arg_local_only \in BOOLEAN
    /\ resolver = EmptyResolver
    /\ request = NoRequest
    /\ constants_module = ConstantsOfResolver

ListCall(name, items) ==
    /\ Call(name, [Returned EXCEPT !.items = items])
    /\ UNCHANGED <<tmpl, string, fields, unformatted, use_defaults, tok, value,
                   arg_local_only, resolver, request, constants_module>>

Segments == ListCall("segments", Template_segments(tmpl, arg_local_only))

TokensOf == ListCall("tokens", Template_tokens(tmpl, arg_local_only))

TemplatesOf == ListCall("templates", Template_templates(tmpl, arg_local_only))

NextStructure == Segments \/ TokensOf \/ TemplatesOf

SpecStructure == InitStructure /\ [][NextStructure]_vars

(***************************************************************************)
(* What it means for a string to match a template, stated without the      *)
(* regular expression: the string is cut into one part per flattened       *)
(* segment, a literal's part is the literal, a token's part is a text its   *)
(* pattern accepts                                                         *)
(***************************************************************************)
TokenAccepts(t, text) ==
    /\ \A j \in 1..Len(text) : text[j] \in t.rx.cls
    /\ Len(text) >= t.rx.min
    /\ t.rx.max # {} => \A m \in t.rx.max : Len(text) <= m

\* the offsets at which a cut of segments i.. of s from pos can end, every
\* occurrence of a token name taking the text of its first occurrence
RECURSIVE ConsistentEndsFrom(_, _, _, _, _)
ConsistentEndsFrom(segments, i, pos, s, seen) ==
    IF i > Len(segments) THEN {pos}
    ELSE LET segment == segments[i]
             text == IF segment.kind = "str" THEN segment.text ELSE seen[segment.name]
         IN  IF segment.kind = "str" \/ segment.name \in DOMAIN seen
             THEN IF LitMatchesAt("lit", text, s, pos)
                  THEN ConsistentEndsFrom(segments, i + 1, pos + Len(text), s, seen)
                  ELSE {}
             ELSE UNION { ConsistentEndsFrom(segments, i + 1, pos + n, s,
                              Put(seen, segment.name, SubSeq(s, pos + 1, pos + n)))
                          : n \in {l \in 0..(Len(s) - pos) :
                                      TokenAccepts(segment.token, SubSeq(s, pos + 1, pos + l))} }

ConsistentEnds(t, s) == ConsistentEndsFrom(Template_segments(t, FALSE), 1, 0, s, EmptyMap)

HasOwnRepeat(t) ==
    \E i, j \in 1..Len(t.segments) :
        /\ i < j
        /\ t.segments[i].kind = "token" /\ t.segments[j].kind = "token"
        /\ t.segments[i].name = t.segments[j].name

Done(name) == pc = "done" /\ op = name

(***************************************************************************)
(* C1: a template whose own segment list holds one token name twice or     *)
(* more: parse accepts a string exactly when it can be cut into the         *)
(* segments with every occurrence of a token taking the same text, and      *)
(* extract accepts exactly when some prefix can.                           *)
(***************************************************************************)
C1_RepeatedTokenConsistency ==
    (pc = "done" /\ HasOwnRepeat(tmpl)) =>
        /\ op = "parse" =>
              (result.status = "ok" <=> Len(string) \in ConsistentEnds(tmpl, string))
        /\ op = "extract" =>
              (result.status = "ok" <=> ConsistentEnds(tmpl, string) # {})

(***************************************************************************)
(* C4: regex() emits a named group at the first occurrence of a token      *)
(* name in flattened segment order and a backreference at every later      *)
(* occurrence, also across nested templates.                               *)
(***************************************************************************)
C4_OneGroupPerName ==
    Done("regex") =>
        LET flat == Template_segments(tmpl, FALSE) IN
        /\ Len(result.regex) = Len(flat)
        /\ \A i \in 1..Len(flat) :
              flat[i].kind = "token" =>
                 IF \E j \in 1..(i - 1) : flat[j].kind = "token" /\ flat[j].name = flat[i].name
                 THEN result.regex[i] = Backref(flat[i].name)
                 ELSE result.regex[i] = NamedGroup(flat[i].name, flat[i].token.rx)

(***************************************************************************)
(* C6: extract returns exactly when some prefix of the string matches the  *)
(* template and raises ParseError otherwise; the end it returns is the end  *)
(* of a matching prefix, and parsing that prefix gives the same fields.     *)
(***************************************************************************)
C6_ExtractPrefix ==
    Done("extract") =>
        /\ result.status = "ok" =>
              /\ 0 <= result.end /\ result.end <= Len(string)
              /\ result.end \in ConsistentEnds(tmpl, string)
              /\ LET p == Template_parse(tmpl, SubSeq(string, 1, result.end))
                 IN  p.status = "ok" /\ p.fields = result.fields
        /\ ConsistentEnds(tmpl, string) # {} => result.status = "ok"
        /\ ConsistentEnds(tmpl, string) = {} => result.status = "ParseError"

(***************************************************************************)
(* C7: parse_debug returns a field mapping exactly when parse returns one, *)
(* the same mapping, and raises a DebugParseError exactly when parse        *)
(* raises ParseError.                                                      *)
(***************************************************************************)
C7_DebugAgreesWithParse ==
    Done("parse_debug") =>
        LET p == Template_parse(tmpl, string) IN
        /\ result.status = "ok" <=> p.status = "ok"
        /\ result.status = "ok" => result.fields = p.fields
        /\ result.status \in DebugErrors <=> p.status = "ParseError"

(***************************************************************************)
(* The segment-by-segment match the diagnostics are stated against: the    *)
(* first k flattened segments, literals matched as literal text            *)
(***************************************************************************)
SegmentRegexes(segments) ==
    [i \in 1..Len(segments) |->
        IF segments[i].kind = "str" THEN EscLit(segments[i].text)
        ELSE Group(segments[i].token.rx)]

SegmentMatch(segments, s, k) ==
    re_match(SubSeq(SegmentRegexes(segments), 1, k), s, FALSE)

\* the largest number of leading segments that match the start of s
LargestK(segments, s) ==
    CHOOSE k \in 0..Len(segments) :
        /\ SegmentMatch(segments, s, k).ok
        /\ \A l \in (k + 1)..Len(segments) : ~SegmentMatch(segments, s, l).ok

TokenIndexes(segments, k) == {i \in 1..k : segments[i].kind = "token"}

MatchedValue(segments, m, s, i) ==
    value_from_parsed_string(segments[i].token, GroupText(m, s, i)).val

\* the values of the tokens among the first k segments
MatchedFields(segments, m, s, k) ==
    [name \in {segments[i].name : i \in TokenIndexes(segments, k)} |->
        LET last == CHOOSE i \in TokenIndexes(segments, k) :
                        /\ segments[i].name = name
                        /\ \A j \in TokenIndexes(segments, k) :
                              segments[j].name = name => j <= i
        IN  MatchedValue(segments, m, s, last)]

\* the occurrences among the first k segments whose value differs from an
\* earlier occurrence of the same token name
Disagreeing(segments, m, s, k) ==
    {j \in TokenIndexes(segments, k) :
        \E i \in TokenIndexes(segments, k) :
            /\ i < j /\ segments[i].name = segments[j].name
            /\ MatchedValue(segments, m, s, i) # MatchedValue(segments, m, s, j)}

(***************************************************************************)
(* C8: when the largest number of leading segments matching the start of   *)
(* the string is k, 1 <= k < n, parse_debug raises a DebugParseError with   *)
(* segment_index k, char_index the end of the k-segment match when segment  *)
(* k is a token, and fields the values of the tokens among the first k      *)
(* segments.                                                               *)
(***************************************************************************)
C8_DebugFirstFailingSegment ==
    Done("parse_debug") =>
        LET segments == Template_segments(tmpl, FALSE)
            k == LargestK(segments, string)
            m == SegmentMatch(segments, string, k)
        IN  (1 <= k /\ k < Len(segments)) =>
               /\ result.status \in DebugErrors
               /\ result.segment_index = k
               /\ segments[k + 1].kind = "token" => result.char_index = m.end
               /\ result.fields = MatchedFields(segments, m, string, k)

DebugMatch(segments, s, k) ==
    re_match(SubSeq(debug_regexes(segments), 1, k), s, FALSE)

DebugK(segments, s) ==
    CHOOSE k \in 0..Len(segments) :
        /\ k >= 1 => DebugMatch(segments, s, k).ok
        /\ \A l \in (k + 1)..Len(segments) : ~DebugMatch(segments, s, l).ok

C2_FormatParseRoundTrip ==
    (/\ pc = "done" /\ op = "reparse"
     /\ unformatted = EmptyMap
     /\ TokenNames(tmpl) \subseteq DOMAIN fields) =>
        /\ result.status = "ok"
        /\ result.fields = [name \in TokenNames(tmpl) |-> fields[name]]

RECURSIVE ResolveInOrder(_, _, _, _)
ResolveInOrder(segments, flds, unf, defaults) ==
    IF segments = <<>> THEN Returned
    ELSE LET segment == Head(segments)
             first ==
                 IF segment.kind = "str"
                 THEN [Returned EXCEPT !.text = segment.text]
                 ELSE IF segment.name \in DOMAIN unf
                 THEN [Returned EXCEPT !.text = unf[segment.name]]
                 ELSE IF segment.name \in DOMAIN flds
                 THEN Token_format(segment.token, flds[segment.name])
                 ELSE IF defaults /\ segment.token.default # {}
                 THEN [Returned EXCEPT !.text =
                         PyStr(CHOOSE d \in segment.token.default : TRUE)]
                 ELSE MissingTokenError(segment.name)
             rest == ResolveInOrder(Tail(segments), flds, unf, defaults)
         IN  IF first.status # "ok" THEN first
             ELSE IF rest.status # "ok" THEN rest
             ELSE [Returned EXCEPT !.text = first.text \o rest.text]

(***************************************************************************)
(* C5: format resolves every token segment in the order unformatted        *)
(* string, formatted field, default (when use_defaults is set and the       *)
(* token has one), and otherwise raises MissingTokenError naming the first  *)
(* unresolved token in segment order.  A default is rendered with str().    *)
(***************************************************************************)
C5_FormatPriority ==
    (pc = "formatted" /\ op = "format") =>
        result = ResolveInOrder(Template_segments(tmpl, FALSE), fields,
                                unformatted, use_defaults)

(***************************************************************************)
(* The tree of a template read left to right: its leaves (strings and      *)
(* tokens), and its template nodes in pre-order                            *)
(***************************************************************************)
RECURSIVE Leaves(_)
Leaves(segs) ==
    IF segs = <<>> THEN <<>>
    ELSE IF Head(segs).kind = "template"
    THEN Leaves(Head(segs).segments) \o Leaves(Tail(segs))
    ELSE <<Head(segs)>> \o Leaves(Tail(segs))

RECURSIVE PreOrder(_)
PreOrder(segs) ==
    IF segs = <<>> THEN <<>>
    ELSE IF Head(segs).kind = "template"
    THEN <<Head(segs)>> \o PreOrder(Head(segs).segments) \o PreOrder(Tail(segs))
    ELSE PreOrder(Tail(segs))

(***************************************************************************)
(* C11: templates() returns the descendant templates in depth-first        *)
(* pre-order, once per path; segments() and tokens() return the flattened   *)
(* segments left to right with duplicates kept and no nested template       *)
(* left; with local_only each returns the template's own direct segments    *)
(* of that kind.                                                           *)
(***************************************************************************)
C11_Flattening ==
    /\ Done("templates") =>
           result.items = IF arg_local_only THEN SelectSeq(tmpl.segments, IsTemplate)
                          ELSE PreOrder(tmpl.segments)
    /\ Done("segments") =>
           /\ result.items = IF arg_local_only THEN tmpl.segments
                             ELSE Leaves(tmpl.segments)
           /\ ~arg_local_only =>
                 \A i \in 1..Len(result.items) : result.items[i].kind # "template"
    /\ Done("tokens") =>
           result.items = IF arg_local_only THEN SelectSeq(tmpl.segments, IsToken)
                          ELSE SelectSeq(Leaves(tmpl.segments), IsToken)

\* a template reached by two paths is listed twice, each time followed by
\* its own descendants
C11_Witness ==
    /\ Done("templates")
    /\ ~arg_local_only
    /\ \E i, j \in 1..Len(result.items) :
          /\ i + 1 < j /\ j + 1 <= Len(result.items)
          /\ result.items[i] = result.items[j]
          /\ result.items[i + 1] = result.items[j + 1]
          /\ result.items[i + 1] \in Range(result.items[i].segments)

\* the padmin and padmax of a configuration violate 0 <= padmin <= padmax
BadPadding(c) ==
    \/ c.padmin # {} /\ The(c.padmin) < 0
    \/ c.padmax # {} /\ The(c.padmax) < 0
    \/ c.padmin # {} /\ c.padmax # {} /\ The(c.padmax) < The(c.padmin)

\* the token named token_name is not in the resolver's registry
NothingRegistered ==
    /\ result = ResolverError
    /\ request.token_name \notin DOMAIN resolver.tokens

(***************************************************************************)
(* C17: a token configuration whose padmin and padmax violate              *)
(* 0 <= padmin <= padmax raises ResolverError and registers no token,      *)
(* whatever the token type and whatever case or choices it carries;        *)
(* otherwise a pattern derived from the width bounds repeats its class     *)
(* {m,n}, {m,}, {,n} or + times for both bounds, padmin only, padmax only, *)
(* neither.                                                                *)
(***************************************************************************)
C17_PaddingValidation ==
    Done("create_token") =>
        LET c == request.token_config IN
        /\ BadPadding(c) => NothingRegistered
        /\ (~BadPadding(c) /\ result = Outcome("ok") /\ c.regex = {}
                /\ tok.rx.choices = <<>> /\ tok.rx.lead = {}) =>
               /\ tok.rx.min = (IF c.padmin # {} THEN The(c.padmin)
                                ELSE IF c.padmax # {} THEN 0 ELSE 1)
               /\ tok.rx.max = c.padmax

(***************************************************************************)
(* C18: create_token raises ResolverError and registers nothing whenever   *)
(* the configuration has an explicit regex together with any of choices,   *)
(* padmin, padmax or case, whatever their values (0 included).             *)
(***************************************************************************)
C18_RegexExclusive ==
    Done("create_token") =>
        LET c == request.token_config IN
        (c.regex # {} /\ (c.choices # {} \/ c.padmin # {} \/ c.padmax # {}
                              \/ c.case # {}))
            => NothingRegistered

(***************************************************************************)
(* C16: a token built from a list of choices accepts exactly those         *)
(* choices: parse(s) returns the value of s (what the token's conversion   *)
(* makes of s) when s is one of them and raises ParseError for every       *)
(* other string, a string that only begins or ends with a choice           *)
(* included; format returns only strings that are one of the choices.      *)
(***************************************************************************)
C16_ExactlyTheChoices ==
    LET choices == The(request.token_config.choices) IN
    /\ Done("choices_parse") =>
           IF string \in Range(choices)
           THEN result = value_from_parsed_string(tok, string)
           ELSE result = ParseError
    /\ Done("choices_format") =>
           (result.status = "ok" => result.text \in Range(choices))

\* the call just made was name(...) on an object already registered
AlreadyRegistered ==
    \/ /\ request'.call = "create_token"
       /\ request'.token_name \in DOMAIN resolver.tokens
    \/ /\ request'.call = "create_template"
       /\ has_template(resolver, request'.template_type, request'.template_name)

\* every token and template of res is bound to the same object in after
KeepsBindings(res, after) ==
    /\ \A n \in DOMAIN res.tokens :
          n \in DOMAIN after.tokens /\ after.tokens[n] = res.tokens[n]
    /\ \A g \in DOMAIN res.templates : \A n \in DOMAIN res.templates[g] :
          has_template(after, g, n) /\ after.templates[g][n] = res.templates[g][n]

\* no (group, name) was assigned twice
StoredOnce(res) ==
    \A i, j \in 1..Len(res.stored) :
        (/\ res.stored[i].template_type = res.stored[j].template_type
         /\ res.stored[i].template_name = res.stored[j].template_name) => i = j

(***************************************************************************)
(* C12: over any sequence of create_token and create_template calls each   *)
(* registered token name and each registered (group, template name) stays  *)
(* bound to the object first stored under it: a create call for a name     *)
(* already registered raises ResolverError and replaces nothing, and one   *)
(* template name can be registered once in each group.                     *)
(***************************************************************************)
C12_WriteOnce ==
    [][request'.call \in {"create_token", "create_template"} =>
          /\ KeepsBindings(resolver, resolver')
          /\ StoredOnce(resolver')
          /\ AlreadyRegistered =>
                result'.status = "ResolverError" /\ resolver' = resolver]_vars

\* the placeholders of a definition string
Placeholders(definition) == finditer(definition, 1, TOKEN_PATTERN(constants_module))

\* the (group, name) a template placeholder of a definition in group
\* template_type refers to
TemplateRef(template_type, match) ==
    LET sep_index == find_dot(match.name, 1)
    IN  IF sep_index = 0
        THEN [type |-> template_type, name |-> Join(match.name)]
        ELSE [type |-> Join(SubSeq(match.name, 1, sep_index - 1)),
              name |-> Join(SubSeq(match.name, sep_index + 1, Len(match.name)))]

TemplateRefs(template_type, definition) ==
    {TemplateRef(template_type, Placeholders(definition)[k]) :
        k \in {k \in 1..Len(Placeholders(definition)) :
                  Placeholders(definition)[k].symbol = SYMBOL_TEMPLATE}}

TokenRefs(definition) ==
    {Join(Placeholders(definition)[k].name) :
        k \in {k \in 1..Len(Placeholders(definition)) :
                  Placeholders(definition)[k].symbol = ""}}

BadSymbol(definition) ==
    \E k \in 1..Len(Placeholders(definition)) :
        Placeholders(definition)[k].symbol \notin {"", SYMBOL_TEMPLATE}

\* the templates a reference table defines
TableNodes(table) ==
    {[type |-> g, name |-> n] : g \in DOMAIN table, n \in UNION {DOMAIN table[h] : h \in DOMAIN table}}
        \cap UNION {{[type |-> g, name |-> n] : n \in DOMAIN table[g]} : g \in DOMAIN table}

\* the templates the definition of node in the table refers to; a template
\* the resolver res already holds is taken from res and followed no further
Succ(table, res, node) ==
    IF node \in TableNodes(table) /\ ~has_template(res, node.type, node.name)
    THEN TemplateRefs(node.type, table[node.type][node.name].string)
    ELSE {}

RECURSIVE Reach(_, _, _, _)
Reach(table, res, nodes, fuel) ==
    LET more == nodes \cup UNION {Succ(table, res, n) : n \in nodes}
    IN  IF fuel = 0 \/ more = nodes THEN nodes
        ELSE Reach(table, res, more, fuel - 1)

\* the templates on a cycle of the table among those the nodes lead to
OnCycle(table, res, nodes) ==
    {n \in Reach(table, res, nodes, Cardinality(TableNodes(table)) + 1) :
        n \in Reach(table, res, Succ(table, res, n), Cardinality(TableNodes(table)) + 1)}

\* the cycle a call runs into: for create_template the one its definition
\* string leads to in the reference table, for from_config any cycle of
\* the configuration
CycleOf(call, res) ==
    IF call.call = "create_template"
    THEN IF call.reference_config = {} THEN {}
         ELSE OnCycle(The(call.reference_config), res,
                      TemplateRefs(call.template_type, call.definition))
    ELSE IF call.call = "from_config"
    THEN OnCycle(RefTable(call.config.templates), res,
                 TableNodes(RefTable(call.config.templates)))
    ELSE {}

(***************************************************************************)
(* C13: create_template and from_config, given a definition table in       *)
(* which a template refers to itself, directly or through a chain of       *)
(* template references, raise ResolverError, and no template on the cycle  *)
(* is registered afterwards.                                               *)
(***************************************************************************)
C13_CycleRejected ==
    [][CycleOf(request', resolver) # {} =>
          /\ result'.status = "ResolverError"
          /\ \A n \in CycleOf(request', resolver) :
                ~has_template(resolver', n.type, n.name)]_vars

\* the definition of the call refers to a token the resolver does not hold,
\* to a template neither the resolver nor the reference table holds, or
\* uses a symbol other than "@"
MissingReference(call, res) ==
    \/ \E n \in TokenRefs(call.definition) : n \notin DOMAIN res.tokens
    \/ \E r \in TemplateRefs(call.template_type, call.definition) :
          /\ ~has_template(res, r.type, r.name)
          /\ ref_string(call.reference_config, r.type, r.name) = {}
    \/ BadSymbol(call.definition)

(***************************************************************************)
(* C14: create_template for a name not yet registered raises ResolverError *)
(* when its definition refers to a token missing from the token table, to  *)
(* a template missing from both the registry and the reference table, or   *)
(* uses a placeholder symbol other than none or "@"; no template is then   *)
(* registered under the requested (group, name).                           *)
(***************************************************************************)
C14_MissingReference ==
    [][(/\ request'.call = "create_template"
        /\ ~has_template(resolver, request'.template_type, request'.template_name)
        /\ MissingReference(request', resolver)) =>
          /\ result'.status = "ResolverError"
          /\ ~has_template(resolver', request'.template_type,
                           request'.template_name)]_vars

\* every reference of the configuration resolves inside it, no symbol is
\* unknown, no token type is unknown and no template is on a cycle
ValidConfig(config) ==
    LET table == RefTable(config.templates)
        token_names == {config.tokens[i].name : i \in 1..Len(config.tokens)}
    IN  /\ \A i \in 1..Len(config.tokens) :
              get_token_cls(token_data_of(config.tokens[i].data).type).ok
        /\ \A node \in TableNodes(table) :
              LET definition == table[node.type][node.name].string
              IN  /\ TokenRefs(definition) \subseteq token_names
                  /\ TemplateRefs(node.type, definition) \subseteq TableNodes(table)
                  /\ ~BadSymbol(definition)
        /\ OnCycle(table, EmptyResolver, TableNodes(table)) = {}

(***************************************************************************)
(* C15: for a configuration whose references all resolve and hold no       *)
(* cycle, from_config ends with exactly the configured token names and, in *)
(* each group, exactly the configured template names registered, each      *)
(* template stored once, whatever the order of the entries and whether a   *)
(* definition is a bare string or an object with a "string" key.           *)
(***************************************************************************)
C15_FromConfigComplete ==
    (op = "from_config" /\ ValidConfig(request.config)) =>
        LET table == RefTable(request.config.templates)
        IN  /\ result.status = "ok"
            /\ DOMAIN resolver.tokens =
                  {request.config.tokens[i].name : i \in 1..Len(request.config.tokens)}
            /\ DOMAIN resolver.templates = DOMAIN table
            /\ \A g \in DOMAIN table : DOMAIN resolver.templates[g] = DOMAIN table[g]
            /\ StoredOnce(resolver)
            /\ Len(resolver.stored) = Cardinality(TableNodes(table))

\* the template types the resolver knows: plain string templates and paths
KnownTemplateTypes == {"string", TEMPLATE_TYPE_PATH}

(***************************************************************************)
(* C19: creating a template whose type is neither the plain string type    *)
(* nor "path" raises ResolverError and builds no template; creating a      *)
(* token of an unknown type raises ResolverError.                          *)
(***************************************************************************)
C19_UnknownType ==
    /\ (op = "create_template" /\ request.template_type \notin KnownTemplateTypes) =>
           /\ result.status = "ResolverError"
           /\ ~has_template(resolver, request.template_type, request.template_name)
    /\ (op = "create_token" /\ pc = "called"
            /\ request.token_config.type \notin {"int", "str"}) =>
           /\ result.status = "ResolverError"
           /\ \A n \in DOMAIN resolver.tokens :
                 resolver.tokens[n].type # request.token_config.type

(***************************************************************************)
(* C20: parse, extract, extract_relative and parse_debug of a PathTemplate *)
(* give the same outcome for a path written with backslashes as for the    *)
(* same path written with forward slashes.                                 *)
(***************************************************************************)
C20_SeparatorAgnostic ==
    /\ Done("PathTemplate.parse") => result = PathTemplate_parse(tmpl, agnostic(string))
    /\ Done("PathTemplate.extract") => result = PathTemplate_extract(tmpl, agnostic(string))
    /\ Done("PathTemplate.extract_relative") =>
           result = PathTemplate_extract_relative(tmpl, agnostic(string))
    /\ Done("PathTemplate.parse_debug") =>
           result = PathTemplate_parse_debug(tmpl, agnostic(string))

\* the pairs paths owes for a list of candidates: one per candidate that
\* parses once its separators are normalised, in the order of the list
RECURSIVE ParsingPairs(_, _)
ParsingPairs(t, candidates) ==
    IF candidates = <<>> THEN <<>>
    ELSE LET parsed == PathTemplate_parse(t, agnostic(Head(candidates)))
         IN  (IF parsed.status = "ok"
              THEN <<[path |-> Head(candidates), fields |-> parsed.fields]>>
              ELSE <<>>) \o ParsingPairs(t, Tail(candidates))

(* C21: once the glob pattern is formatted, the pairs paths has yielded    *)
(* are those of the candidates consumed so far that parse, in the order    *)
(* of the candidates and with the fields parse returns for the normalised  *)
(* path; no ParseError leaves the generator, and the generator ends only   *)
(* after the last candidate.                                               *)
C21_PathsSkipsParseFailures ==
    op = "PathTemplate.paths" /\ pc \in {"globbing", "done"} =>
        /\ result.items =
              ParsingPairs(tmpl, SubSeq(request.candidates, 1, request.index))
        /\ pc = "done" =>
              result.status \in {"StopIteration", "MissingTokenError", "FormatError"}
        /\ result.status = "StopIteration" =>
              request.index = Len(request.candidates)

(* C22: parse_debug tries the prefix lengths n, n-1, ..., 1 in that order,  *)
(* goes on to the next one only when the pattern of the current one does    *)
(* not match the start of the string, and ends at the first one that        *)
(* matches with returned fields, ExcessStringError, MismatchTokenError or   *)
(* DebugParseError, after at most n match attempts; when no prefix length   *)
(* matches it raises DebugParseError with char_index 0, segment_index 0 and *)
(* no fields.                                                               *)
C22_DebugLoop ==
    [][LET segments == Template_segments(tmpl, FALSE)
           n == Len(segments)
       IN  /\ pc = "ready" /\ pc' = "loop" =>
                request'.segment_index = n /\ request'.attempts = 0
           /\ pc = "loop" /\ pc' = "loop" =>
                /\ request.segment_index >= 1
                /\ ~DebugMatch(segments, string, request.segment_index).ok
                /\ request'.segment_index = request.segment_index - 1
                /\ request'.attempts = request.attempts + 1
           /\ pc = "loop" /\ pc' = "done" =>
                /\ result'.status \in {"ok"} \cup DebugErrors
                /\ request'.attempts <= n
                /\ IF request.segment_index >= 1
                   THEN DebugMatch(segments, string, request.segment_index).ok
                   ELSE result' = DebugError("DebugParseError", 0, 0, EmptyMap)]_vars

\* the length of the longest common prefix of two strings
RECURSIVE CommonPrefix(_, _)
CommonPrefix(a, b) ==
    IF a # <<>> /\ b # <<>> /\ Head(a) = Head(b)
    THEN 1 + CommonPrefix(Tail(a), Tail(b)) ELSE 0

(* C23: when parse_debug reports the segment after its k-segment match and  *)
(* that segment is a literal L, char_index is the end offset of the match   *)
(* plus the length of the longest common prefix of L and the rest of the    *)
(* string: the offset of the first character that departs from L, or the    *)
(* end of the string when the string ends part-way through L.               *)
C23_LiteralCharIndex ==
    Done("parse_debug") =>
        LET segments == Template_segments(tmpl, FALSE)
            k == DebugK(segments, string)
            m == DebugMatch(segments, string, k)
        IN  (/\ 1 <= k /\ k < Len(segments)
             /\ segments[k + 1].kind = "str"
             /\ result.status = "DebugParseError" /\ result.segment_index = k) =>
               result.char_index =
                  m.end + CommonPrefix(segments[k + 1].text,
                                       SubSeq(string, m.end + 1, Len(string)))

\* the tokens of the template that have a default and get no value from
\* the call
Defaulted ==
    {seg \in Range(Template_tokens(tmpl, FALSE)) :
        /\ seg.token.default # {}
        /\ seg.name \notin DOMAIN fields
        /\ seg.name \notin DOMAIN unformatted}

(* C24: a token left out of fields whose default is used is rendered as    *)
(* Token.format renders the default: format(fields) has the outcome of     *)
(* format(fields plus {name: default}), the same string or a FormatError   *)
(* in both.                                                                *)
C24_DefaultIsFormatted ==
    (op = "format" /\ pc = "formatted" /\ use_defaults) =>
        \A seg \in Defaulted :
            LET d == CHOOSE v \in seg.token.default : TRUE
                given == Template_format(tmpl, Put(fields, seg.name, d),
                                         unformatted, use_defaults)
            IN  /\ result.status = given.status
                /\ result.text = given.text

(* C25: unformatted and use_defaults reach the tokens of nested templates  *)
(* as they reach the template's own: format has the outcome it has on the  *)
(* template with its nested templates replaced by their segments, so an    *)
(* unformatted string for a nested token is used verbatim and, with        *)
(* use_defaults false, a missing nested token raises MissingTokenError     *)
(* whether or not it has a default.                                        *)
C25_OptionsAtEveryDepth ==
    (op = "format" /\ pc = "formatted") =>
        LET flat == Template(tmpl.name, Template_segments(tmpl, FALSE))
            expected == Template_format(flat, fields, unformatted, use_defaults)
        IN  /\ result.status = expected.status
            /\ result.text = expected.text
            /\ result.token_name = expected.token_name

\* the placeholders of a definition string in which a template name may
\* carry its group, "{@group.name}"
DottedPlaceholders(definition) == finditer(definition, 1, WordChars \cup {"."})

IsReference(match) == match.symbol = SYMBOL_TEMPLATE

\* the (group, name) of every template reference of a call, in the order
\* of the definition string
References(call) ==
    LET matches == SelectSeq(DottedPlaceholders(call.definition), IsReference)
    IN  [i \in 1..Len(matches) |-> TemplateRef(call.template_type, matches[i])]

\* the name of the call is free and its definition refers only to
\* registered tokens and to templates that are registered or that the
\* reference table defines by a string without placeholders
Resolvable(call, res) ==
    LET matches == DottedPlaceholders(call.definition)
    IN  /\ ~has_template(res, call.template_type, call.template_name)
        /\ \A k \in 1..Len(matches) :
              \/ /\ matches[k].symbol = ""
                 /\ Join(matches[k].name) \in DOMAIN res.tokens
              \/ /\ IsReference(matches[k])
                 /\ LET r == TemplateRef(call.template_type, matches[k])
                        ref == ref_string(call.reference_config, r.type, r.name)
                    IN  \/ has_template(res, r.type, r.name)
                        \/ /\ ref # {}
                           /\ ~The(ref).isdict
                           /\ DottedPlaceholders(The(ref).string) = <<>>

\* the (group, name) pairs a call may add to the registry: its own and
\* those its references lead to through the reference table
MayRegister(call, res) ==
    LET own == [type |-> call.template_type, name |-> call.template_name]
        refs == Range(References(call))
    IN  IF call.reference_config = {} THEN {own}
        ELSE LET table == The(call.reference_config)
             IN  {own} \cup Reach(table, res, refs, Cardinality(TableNodes(table)) + 1)

(* C26: in a definition of group G, {@name} resolves to the template       *)
(* (G, name) and {@H.name} to the template (H, name): when every reference *)
(* is registered or defined in the reference table the call succeeds, the  *)
(* template segments of the new template                                   *)
(* are the referenced templates in the order of the string, a registered   *)
(* one being the registered object and one built on demand being           *)
(* registered under its own group, and nothing else enters the registry.   *)
C26_ReferenceGroups ==
    [][request'.call = "create_template" =>
          LET call == request'
              refs == References(call)
              subs == SelectSeq(tmpl'.segments, IsTemplate)
          IN  /\ (Resolvable(call, resolver) /\ Len(refs) >= 1) => result'.status = "ok"
              /\ result'.status = "ok" =>
                    /\ Len(subs) = Len(refs)
                    /\ \A i \in 1..Len(refs) :
                          /\ subs[i].name = refs[i].name
                          /\ IsPathTemplate(subs[i]) <=> refs[i].type = TEMPLATE_TYPE_PATH
                          /\ has_template(resolver', refs[i].type, refs[i].name)
                          /\ has_template(resolver, refs[i].type, refs[i].name) =>
                                subs[i] = resolver.templates[refs[i].type][refs[i].name]
                    /\ \A g \in DOMAIN resolver'.templates :
                          \A n \in DOMAIN resolver'.templates[g] :
                             \/ has_template(resolver, g, n)
                             \/ [type |-> g, name |-> n] \in MayRegister(call, resolver)]_vars

\* template_obj is what the registry of res holds under its name in some
\* group
IsRegistered(res, template_obj) ==
    \E g \in DOMAIN res.templates :
        /\ has_template(res, g, template_obj.name)
        /\ res.templates[g][template_obj.name] = template_obj

(* C27: every template that is a segment of a registered template is the   *)
(* object registered under its own name, and the registry received every   *)
(* template after the templates it refers to.                              *)
C27_SegmentsAreRegistered ==
    /\ \A g \in DOMAIN resolver.templates : \A n \in DOMAIN resolver.templates[g] :
          \A sub \in Range(SelectSeq(resolver.templates[g][n].segments, IsTemplate)) :
             IsRegistered(resolver, sub)
    /\ \A i \in 1..Len(resolver.stored) :
          \A sub \in Range(SelectSeq(resolver.stored[i].template_obj.segments, IsTemplate)) :
             \E j \in 1..(i - 1) : resolver.stored[j].template_obj = sub


(***************************************************************************)
(* C28: the pattern of a template built from a definition string           *)
(***************************************************************************)
\* s with every template reference replaced by the pattern of the template
\* the resolver holds for it, every other character kept
RECURSIVE ReferencesReplaced(_, _, _, _)
ReferencesReplaced(s, i, template_type, res) ==
    IF i > Len(s) THEN <<>>
    ELSE LET m == placeholder_at(s, i, TOKEN_PATTERN(constants_module))
             sep == find_dot(m.name, 1)
             subtype == IF sep = 0 THEN template_type
                        ELSE Join(SubSeq(m.name, 1, sep - 1))
             name == Join(SubSeq(m.name, sep + 1, Len(m.name)))
         IN  IF ~m.ok
             THEN <<s[i]>> \o ReferencesReplaced(s, i + 1, template_type, res)
             ELSE (IF m.symbol = SYMBOL_TEMPLATE
                   THEN Template_pattern(res.templates[subtype][name], FALSE)
                   ELSE SubSeq(s, i, m.end))
                  \o ReferencesReplaced(s, m.end + 1, template_type, res)

PatternTaken == op = "pattern" /\ ~request.formatters

NoEmptyLiteral ==
    \A i \in 1..Len(tmpl.segments) :
        tmpl.segments[i].kind = "str" => tmpl.segments[i].text # <<>>

\* C28 as stated: pattern() of the template create_template built is its
\* definition string, with each template reference replaced by the pattern
\* of the referenced template, and the template has no empty literal segment
C28_PatternIsDefinition ==
    PatternTaken =>
        /\ result.text = ReferencesReplaced(request.created.definition, 1,
                            request.created.template_type, resolver)
        /\ NoEmptyLiteral

\* C28, amended: pattern() of the template create_template built is its
\* definition string after the expansion of environment variables, with each
\* template reference replaced by the pattern of the referenced template,
\* and the template has no empty literal segment
C28_PatternIsExpandedDefinition ==
    PatternTaken =>
        /\ result.text =
              ReferencesReplaced(expandvars(Str(request.created.definition)).s, 1,
                                 request.created.template_type, resolver)
        /\ NoEmptyLiteral

C28_Witness ==
    /\ PatternTaken
    /\ request.created.definition = d_env
    /\ result.text = <<"a", "x", "-", "{", "s", "}", "x">>

(***************************************************************************)
(* C29: a create_token or create_template call that raises ResolverError   *)
(* leaves the token registry and the template registry as they were before *)
(* the call; nothing stays registered by the failed call, the templates    *)
(* built on demand before the failure included.                            *)
(***************************************************************************)
C29_FailedCallRegistersNothing ==
    [][(/\ request'.call \in {"create_token", "create_template"}
        /\ result'.status = "ResolverError") =>
          /\ resolver'.tokens = resolver.tokens
          /\ resolver'.templates = resolver.templates]_vars

(***************************************************************************)
(* C30: every DebugParseError raised by parse_debug on a string s for a    *)
(* template with n >= 1 flattened segments has 0 <= char_index <= len(s)   *)
(* and 0 <= segment_index <= n, with segment_index = n only for            *)
(* ExcessStringError; format_string_debugger then indexes a segment only   *)
(* when segment_index < n, and its caret falls on a character of the       *)
(* string or directly after its end.                                       *)
(***************************************************************************)
C30_DebugErrorInBounds ==
    LET n == Len(Template_segments(tmpl, FALSE))
        column == Len(result.items[3]) - 1 - Len(prefix_string)
    IN  /\ (pc \in {"done", "formatted"} /\ result.status \in DebugErrors) =>
              /\ 0 <= result.char_index /\ result.char_index <= Len(string)
              /\ 0 <= result.segment_index /\ result.segment_index <= n
              /\ result.segment_index = n => result.status = "ExcessStringError"
        /\ pc = "formatted" =>
              /\ request.segment # {} => result.segment_index < n
              /\ 0 <= column /\ column <= Len(string)

====
